---- MODULE Spec2Model ----
(***************************************************************************)
(* Model of the in-place mesh loaders of OpenGlitch.                       *)
(*                                                                         *)
(* The repository holds three copies of the "cast the blob onto a struct,  *)
(* swap, then add the base to every offset" loader:                        *)
(*   impl = "st"   repack/src/st.rs + repack/src/raw/dx.rs  (DirectX mesh) *)
(*   impl = "raw"  repack/src/raw.rs                        (GameCube)     *)
(*   impl = "ptr"  src/formats/mesh/raw.rs (Ptr<T> wrapper) (GameCube)     *)
(*                                                                         *)
(* The blob is modelled byte by byte.  Structures keep the fields the      *)
(* loader reads or writes (every pointer, every count) plus one            *)
(* representative multi-byte scalar; the name buffers and the remaining    *)
(* scalars are left out, so the field offsets are compacted.  Raw pointers *)
(* are 4 bytes wide (the layout the 32-bit offsets of the file need).      *)
(* A 32-bit word is the pair <<hi, lo>> of its two 16-bit halves.          *)
(***************************************************************************)
EXTENDS Integers, Sequences, FiniteSets, TLC

VARIABLES impl, host, order, tpl, mem, stack, status, swapCnt, relocCnt, visited, fixes, ret,
          vb, out, reader, pointer

vars == <<impl, host, order, tpl, mem, stack, status, swapCnt, relocCnt, visited, fixes, ret,
          vb, out, reader, pointer>>
\* impl, host, order  the loader, the endianness of the build target, the
\*                     byte order of the file
\* tpl                 the parameters the file was generated from
\* mem                 the bytes of the boxed buffer, index 0 at address Base
\* stack               the running fix calls: structure, address, statement,
\*                     and the position of the array loop of that statement
\* status              "file", "loading", "loaded", "dropped"; "ub" once a step
\*                     reads or writes outside the buffer; "panic" after a
\*                     failed unwrap
\* ret                 what the last accessor call returned
\* fixes               how often fix was called on the root
\* vb, out             the vertex buffer a decode operation is applied to and
\*                     what the operation returned
\* reader              the position of a binrw reader over the bytes in mem and
\*                     the position it had when read_options was called
\* pointer             a Ptr<T> of formats/mesh/raw.rs: its value, the offset
\*                     the file stored in it, and the address it is offset by
\* swapCnt, relocCnt, visited
\*                     history: how often each byte was swapped, how often the
\*                     base was added to the field at each address, and the
\*                     structures fix or fix_offset was called on

(* ---------------------------- bounds ---------------------------------- *)
\* largest value of a count field of the generated blobs
MaxCount == 3
\* address the allocator gave the blob (the `ptr` argument of fix)
Base == 4096
\* how many times a caller re-invokes fix on a loaded document
MaxRefix == 1
\* deepest recursion of fix the model follows
MaxDepth == 8

(* ------------------------ words and bytes ----------------------------- *)
NULL == <<0, 0>>

\* digit d (0 = least significant) of v in base 256
Digit(v, d) == IF d = 0 THEN v % 256
               ELSE IF d = 1 THEN (v \div 256) % 256
               ELSE IF d = 2 THEN (v \div 65536) % 256
               ELSE (v \div 16777216) % 256

\* native read of a 1- or 2-byte integer at a
RdN(m, a, w, h) ==
    IF w = 1 THEN m[a]
    ELSE IF h = "little" THEN m[a] + 256 * m[a + 1]
    ELSE 256 * m[a] + m[a + 1]

\* native read of a 4-byte word at a
RdW(m, a, h) ==
    IF h = "little" THEN <<256 * m[a + 3] + m[a + 2], 256 * m[a + 1] + m[a]>>
    ELSE <<256 * m[a] + m[a + 1], 256 * m[a + 2] + m[a + 3]>>

\* bytes of the word w, most significant first
Sig(w) == <<w[1] \div 256, w[1] % 256, w[2] \div 256, w[2] % 256>>

\* native write of a 4-byte word at a
WrW(m, a, h, w) ==
    IF h = "little"
    THEN [m EXCEPT ![a] = Sig(w)[4], ![a + 1] = Sig(w)[3], ![a + 2] = Sig(w)[2], ![a + 3] = Sig(w)[1]]
    ELSE [m EXCEPT ![a] = Sig(w)[1], ![a + 1] = Sig(w)[2], ![a + 2] = Sig(w)[3], ![a + 3] = Sig(w)[4]]

\* a count of 1, 2 or 4 bytes; a 4-byte count above 65535 saturates
\* (it overruns every blob of the model all the same)
RdCount(m, a, w, h) ==
    IF w = 4 THEN (IF RdW(m, a, h)[1] = 0 THEN RdW(m, a, h)[2] ELSE 65535)
    ELSE RdN(m, a, w, h)

\* u32 / usize wrapping addition of k < 65536 to the word w
AddN(w, k) ==
    LET lo == w[2] + k
    IN  <<(w[1] + (lo \div 65536)) % 65536, lo % 65536>>

\* ptr.byte_offset(offset): the blob base plus the stored value
AddBase(w) == AddN(w, Base)


(* ------------------------- byte-order codec --------------------------- *)
\* the field <<off, w>> of the structure at a that holds byte x, or <<>>
FieldAt(fields, a, x) ==
    IF \E k \in DOMAIN fields : x >= a + fields[k][1] /\ x < a + fields[k][1] + fields[k][2]
    THEN fields[CHOOSE k \in DOMAIN fields :
                    x >= a + fields[k][1] /\ x < a + fields[k][1] + fields[k][2]]
    ELSE <<>>

\* derived SwapBytes::swap_bytes_mut: reverse the bytes of every listed field
swap_bytes_mut(m, fields, a) ==
    LET bytes == UNION {(a + fields[k][1]) .. (a + fields[k][1] + fields[k][2] - 1) :
                          k \in DOMAIN fields}
    IN  [x \in bytes |->
            LET f == FieldAt(fields, a, x)
            IN  m[(a + f[1]) + ((a + f[1] + f[2] - 1) - x)]] @@ m

\* the swap counters after swap_bytes_mut of these fields
CountSwap(cnt, fields, a) ==
    LET bytes == UNION {(a + fields[k][1]) .. (a + fields[k][1] + fields[k][2] - 1) :
                          k \in DOMAIN fields}
    IN  [x \in bytes |-> cnt[x] + 1] @@ cnt

(* ---------------------------- relocation ------------------------------ *)
\* fix_offset without its null check
fix_offset_unchecked(w) == AddBase(w)

\* st.rs fix_offset / Ptr::offset: Null stays Null, otherwise add the base
fix_offset(w) == IF w = NULL THEN w ELSE AddBase(w)

(* ------------------- structures: size and swapped fields -------------- *)
\* each record: size in bytes, swap = the <<offset, width>> of every field
\* that the derived SwapBytes reverses (u8 fields and #[sb(skip)] are absent)
FMesh_t == [size |-> 40,
            swap |-> <<<<0, 2>>, <<8, 4>>, <<12, 4>>, <<16, 4>>, <<20, 4>>,
                       <<24, 4>>, <<28, 4>>, <<32, 4>>, <<36, 4>>>>]
FMeshSegment_t == [size |-> 4, swap |-> <<<<0, 4>>>>]
FMeshBone_t == [size |-> 4, swap |-> <<<<0, 4>>>>]
FMeshLight_t == [size |-> 4, swap |-> <<<<0, 4>>>>]
FMeshMaterial_t == [size |-> 16, swap |-> <<<<0, 4>>, <<4, 4>>, <<8, 2>>, <<12, 4>>>>]
FMeshTexLayerID_t == [size |-> 8, swap |-> <<<<4, 4>>>>]
CFTexInst_t == [size |-> 16, swap |-> <<<<0, 4>>, <<4, 4>>, <<8, 4>>, <<12, 4>>>>]
FTexInfo_t == [size |-> 8, swap |-> <<<<0, 4>>, <<4, 2>>>>]
FTexDef_t == [size |-> 12, swap |-> <<<<0, 4>>, <<4, 2>>, <<8, 4>>>>]
FLink_t == [size |-> 8, swap |-> <<<<0, 4>>, <<4, 4>>>>]
FTexData_t == [size |-> 40,
               swap |-> <<<<0, 4>>, <<4, 2>>, <<8, 4>>, <<12, 4>>, <<16, 4>>, <<20, 2>>,
                          <<24, 4>>, <<28, 4>>, <<32, 4>>, <<36, 4>>>>]
DxMesh_t == [size |-> 20, swap |-> <<<<0, 2>>, <<4, 4>>, <<8, 4>>, <<12, 4>>, <<16, 4>>>>]
DxVertexBufferDescriptor_t ==
    [size |-> 32,
     swap |-> <<<<0, 4>>, <<4, 4>>, <<8, 4>>, <<12, 2>>, <<16, 4>>, <<20, 4>>,
                <<24, 4>>, <<28, 4>>>>]
DxMeshMaterial_t == [size |-> 8, swap |-> <<<<0, 4>>, <<4, 4>>>>]
DxMeshCluster_t == [size |-> 12, swap |-> <<<<0, 2>>, <<4, 4>>, <<8, 4>>>>]
DxMeshStrip_t == [size |-> 4, swap |-> <<<<2, 2>>>>]
u16_t == [size |-> 2, swap |-> <<<<0, 2>>>>]
\* GameCube structures of raw.rs and formats/mesh/raw.rs
FTexDataGC_t == [size |-> 32,
                 swap |-> <<<<0, 4>>, <<4, 2>>, <<8, 4>>, <<12, 4>>, <<16, 4>>, <<20, 2>>,
                            <<24, 4>>, <<28, 4>>>>]
GCTexObj_t == [size |-> 4, swap |-> <<<<0, 4>>>>]
FGCMesh_t == [size |-> 16, swap |-> <<<<0, 4>>, <<6, 2>>, <<8, 4>>, <<12, 4>>>>]
FGCVB_t == [size |-> 24,
            swap |-> <<<<0, 2>>, <<2, 2>>, <<6, 2>>, <<8, 4>>, <<12, 4>>, <<16, 4>>, <<20, 4>>>>]
FGCST16_t == [size |-> 4, swap |-> <<<<0, 2>>, <<2, 2>>>>]
FGCMeshSkin_t == [size |-> 20, swap |-> <<<<0, 2>>, <<4, 4>>, <<8, 4>>, <<12, 4>>, <<16, 4>>>>]
FGCTransDesc_t == [size |-> 8, swap |-> <<<<2, 2>>>>]
FGCSkinPosNorm_t == [size |-> 12,
                     swap |-> <<<<0, 2>>, <<2, 2>>, <<4, 2>>, <<6, 2>>, <<8, 2>>, <<10, 2>>>>]
FGCMeshMaterial_t == [size |-> 8, swap |-> <<<<0, 4>>, <<4, 2>>>>]
FGCDLCont_t == [size |-> 12, swap |-> <<<<2, 2>>, <<4, 4>>, <<8, 4>>>>]

TypeInfo(ty) ==
    CASE ty = "FMesh" -> FMesh_t
      [] ty = "FMeshSegment" -> FMeshSegment_t
      [] ty = "FMeshBone" -> FMeshBone_t
      [] ty = "FMeshLight" -> FMeshLight_t
      [] ty = "FMeshMaterial" -> FMeshMaterial_t
      [] ty = "FMeshTexLayerID" -> FMeshTexLayerID_t
      [] ty = "CFTexInst" -> CFTexInst_t
      [] ty = "FTexInfo" -> FTexInfo_t
      [] ty = "FTexDef" -> FTexDef_t
      [] ty = "FLink" -> FLink_t
      [] ty = "FLinkDx" -> FLink_t
      [] ty = "FTexData" -> FTexData_t
      [] ty = "DxMesh" -> DxMesh_t
      [] ty = "DxVertexBufferDescriptor" -> DxVertexBufferDescriptor_t
      [] ty = "DxMeshMaterial" -> DxMeshMaterial_t
      [] ty = "DxMeshCluster" -> DxMeshCluster_t
      [] ty = "DxMeshStrip" -> DxMeshStrip_t
      [] ty = "u16" -> u16_t
      [] ty = "FTexDataGC" -> FTexDataGC_t
      [] ty = "GCTexObj" -> GCTexObj_t
      [] ty = "FGCMesh" -> FGCMesh_t
      [] ty = "FGCVB" -> FGCVB_t
      [] ty = "FGCST16" -> FGCST16_t
      [] ty = "FGCMeshSkin" -> FGCMeshSkin_t
      [] ty = "FGCTransDesc" -> FGCTransDesc_t
      [] ty = "FGCSkinPosNorm" -> FGCSkinPosNorm_t
      [] ty = "FGCMeshMaterial" -> FGCMeshMaterial_t
      [] ty = "FGCDLCont" -> FGCDLCont_t
      [] ty = "unit" -> [size |-> 0, swap |-> <<>>]
      [] ty = "u8" -> [size |-> 1, swap |-> <<>>]

SizeOf(ty) == TypeInfo(ty).size

(* ------------------- fix_offset bodies, one step per call ------------- *)
\* self.f = fix_offset(self.f, ptr)              /  Ptr::offset
Reloc(off) == [k |-> "reloc", off |-> off, cnt |-> 0, cw |-> 0, ty |-> "unit"]
\* try_fix(&mut self.f, ptr)                     /  Ptr::offset_and_fix
TryFix(off, ty) == [k |-> "fix", off |-> off, cnt |-> 0, cw |-> 0, ty |-> ty]
\* try_fix_array(&mut self.f, self.count, ptr)   /  Ptr::offset_and_fix_slice
TryFixArray(off, cnt, cw, ty) == [k |-> "arr", off |-> off, cnt |-> cnt, cw |-> cw, ty |-> ty]
\* relocate the outer array, then try_fix every element pointer
PtrArray(off, cnt, cw, ty) == [k |-> "parr", off |-> off, cnt |-> cnt, cw |-> cw, ty |-> ty]
\* self.f.fix_offset(ptr) of an embedded structure (no swap of its own)
Embedded(off, ty) == [k |-> "emb", off |-> off, cnt |-> 0, cw |-> 0, ty |-> ty]
\* DxMesh: relocate index_buffer, then try_fix_array each slot with index_count(i)
IndexBuffers(off, cnt, cntptr) ==
    [k |-> "ixb", off |-> off, cnt |-> cnt, cw |-> cntptr, ty |-> "u16"]
\* FGCDLCont: relocate buffer unless the STREAMING flag (0x80 of byte cnt) is set
RelocUnlessStreaming(off, flag) ==
    [k |-> "relocns", off |-> off, cnt |-> flag, cw |-> 1, ty |-> "unit"]

\* the platform structures behind FMesh.mesh_is and FMeshMaterial.platform_data
MeshIS(i) == IF i = "st" THEN "DxMesh" ELSE "FGCMesh"
PlatformData(i) == IF i = "st" THEN "DxMeshMaterial" ELSE "FGCMeshMaterial"
TexDataTy(i) == IF i = "st" THEN "FTexData" ELSE "FTexDataGC"

FMesh_fix_offset(i) ==
    <<Reloc(8), Reloc(12), Reloc(16), Reloc(20), Reloc(28),
      TryFixArray(24, 6, 1, "FMeshMaterial"),
      TryFixArray(32, 4, 1, "FMeshTexLayerID"),
      TryFix(36, MeshIS(i))>>
FMeshMaterial_fix_offset(i) == <<Reloc(0), Reloc(4), TryFix(12, PlatformData(i))>>
FMeshTexLayerID_fix_offset == <<PtrArray(4, 2, 1, "CFTexInst")>>
CFTexInst_fix_offset(i) ==
    <<TryFix(0, "FTexDef"), TryFix(4, TexDataTy(i)), TryFix(8, TexDataTy(i))>>
FTexDef_fix_offset(i) == <<Embedded(0, "FTexInfo"), TryFix(8, TexDataTy(i))>>
FTexInfo_fix_offset == <<Reloc(0)>>
FLink_fix_offset == <<Reloc(0), Reloc(4)>>
FTexData_fix_offset ==
    <<Embedded(0, "FTexDef"), Embedded(12, "FLink"),
      Reloc(24), Reloc(28), Reloc(32), Reloc(36)>>
\* raw/dx.rs
\* DxMesh::fix_offset with the index-buffer step moved in front of the
\* indicies_counts step
DxMesh_fix_offset_permuted ==
    <<TryFixArray(4, 2, 1, "DxVertexBufferDescriptor"),
      IndexBuffers(16, 3, 12),
      TryFixArray(12, 3, 1, "u16")>>
DxMesh_fix_offset ==
    <<TryFixArray(4, 2, 1, "DxVertexBufferDescriptor"),
      TryFixArray(12, 3, 1, "u16"),
      IndexBuffers(16, 3, 12)>>
FLinkDx_fix_offset == <<TryFix(0, "FLinkDx"), TryFix(4, "FLinkDx")>>
DxVertexBufferDescriptor_fix_offset ==
    <<Reloc(16), Reloc(20), Reloc(24), Reloc(28), Embedded(0, "FLinkDx")>>
DxMeshMaterial_fix_offset == <<TryFixArray(0, 4, 4, "DxMeshCluster")>>
DxMeshCluster_fix_offset == <<Reloc(4), TryFixArray(8, 0, 2, "DxMeshStrip")>>
\* raw.rs (GameCube); formats/mesh/raw.rs where it differs
FTexDataGC_fix_offset(i) ==
    <<Embedded(0, "FTexDef"), Embedded(12, "FLink"),
      IF i = "raw" THEN TryFix(24, "GCTexObj") ELSE Reloc(24),
      Reloc(28)>>
FGCMesh_fix_offset == <<TryFixArray(8, 5, 1, "FGCVB"), TryFix(12, "FGCMeshSkin")>>
FGCVB_fix_offset(i) ==
    IF i = "raw" THEN <<Reloc(8), Reloc(20), Reloc(12), TryFix(16, "FGCST16")>>
    ELSE <<Reloc(8), Reloc(20), Reloc(12), Reloc(16)>>
FGCMeshSkin_fix_offset(i) ==
    IF i = "raw"
    THEN <<TryFixArray(4, 0, 2, "FGCTransDesc"), TryFixArray(12, 8, 4, "FGCSkinPosNorm"),
           Reloc(16)>>
    ELSE <<Reloc(4), Reloc(12), Reloc(16)>>
FGCMeshMaterial_fix_offset == <<TryFixArray(0, 4, 2, "FGCDLCont")>>
FGCDLCont_fix_offset == <<RelocUnlessStreaming(8, 0)>>

\* the fix_offset / fix_offsets body of a structure in loader i
Prog(i, ty) ==
    CASE ty = "FMesh" -> FMesh_fix_offset(i)
      [] ty = "FMeshMaterial" -> FMeshMaterial_fix_offset(i)
      [] ty = "FMeshTexLayerID" -> FMeshTexLayerID_fix_offset
      [] ty = "CFTexInst" -> CFTexInst_fix_offset(i)
      [] ty = "FTexDef" -> FTexDef_fix_offset(i)
      [] ty = "FTexInfo" -> FTexInfo_fix_offset
      [] ty = "FLink" -> FLink_fix_offset
      [] ty = "FTexData" -> FTexData_fix_offset
      [] ty = "DxMesh" -> DxMesh_fix_offset
      [] ty = "FLinkDx" -> FLinkDx_fix_offset
      [] ty = "DxVertexBufferDescriptor" -> DxVertexBufferDescriptor_fix_offset
      [] ty = "DxMeshMaterial" -> DxMeshMaterial_fix_offset
      [] ty = "DxMeshCluster" -> DxMeshCluster_fix_offset
      [] ty = "FTexDataGC" -> FTexDataGC_fix_offset(i)
      [] ty = "FGCMesh" -> FGCMesh_fix_offset
      [] ty = "FGCVB" -> FGCVB_fix_offset(i)
      [] ty = "FGCMeshSkin" -> FGCMeshSkin_fix_offset(i)
      [] ty = "FGCMeshMaterial" -> FGCMeshMaterial_fix_offset
      [] ty = "FGCDLCont" -> FGCDLCont_fix_offset
      [] OTHER -> <<>>

(* --------------------------- input blobs ------------------------------ *)
\* Region offsets of the generated files.  Every array region holds MaxCount
\* elements, so a raised MaxCount moves the regions apart.
SkelLen == 2
Lay ==
    LET
        SegOff == FMesh_t.size
        BoneOff == SegOff + MaxCount * FMeshSegment_t.size
        LightOff == BoneOff + MaxCount * FMeshBone_t.size
        SkelOff == LightOff + MaxCount * FMeshLight_t.size
        MatOff == SkelOff + SkelLen + 2
        CollOff == MatOff + MaxCount * FMeshMaterial_t.size
        TexLOff == CollOff + 4
        PalOff == TexLOff + MaxCount * FMeshTexLayerID_t.size
        TexInstOff == PalOff + 4
        TexDefOff == TexInstOff + CFTexInst_t.size
        TexDataOff == TexDefOff + FTexDef_t.size
        PlatOff == TexDataOff + FTexData_t.size
        VbOff == PlatOff + DxMesh_t.size
        VDataOff == VbOff + MaxCount * DxVertexBufferDescriptor_t.size
        ICntOff == VDataOff + MaxCount * 4
        IbpOff == ICntOff + 4
        IdxOff == IbpOff + 4
        PMatOff == IdxOff + 4
        ClusterOff == PMatOff + DxMeshMaterial_t.size
        StripOff == ClusterOff + DxMeshCluster_t.size
        SkinOff == StripOff + DxMeshStrip_t.size
        TransOff == SkinOff + FGCMeshSkin_t.size
        SkinVertOff == TransOff + FGCTransDesc_t.size
    IN  [Seg |-> SegOff,
         Bone |-> BoneOff,
         Light |-> LightOff,
         Skel |-> SkelOff,
         Mat |-> MatOff,
         Coll |-> CollOff,
         TexL |-> TexLOff,
         Pal |-> PalOff,
         TexInst |-> TexInstOff,
         TexDef |-> TexDefOff,
         TexData |-> TexDataOff,
         Plat |-> PlatOff,
         Vb |-> VbOff,
         VData |-> VDataOff,
         ICnt |-> ICntOff,
         Ibp |-> IbpOff,
         Idx |-> IdxOff,
         PMat |-> PMatOff,
         Cluster |-> ClusterOff,
         Strip |-> StripOff,
         Skin |-> SkinOff,
         Trans |-> TransOff,
         SkinVert |-> SkinVertOff]
BlobLen == Lay.SkinVert + FGCSkinPosNorm_t.size

\* the eight offset fields of the header, by name
HdrPtr == [segment_array |-> 8, bone_array |-> 12, light_array |-> 16,
           skeleton_index_array |-> 20, material_array |-> 24, collision_tree |-> 28,
           tex_layer_array |-> 32, mesh_is |-> 36]
HdrPtrNames == DOMAIN HdrPtr

F(a, w, v) == [a |-> a, w |-> w, v |-> v]

\* the bytes m with the fields fs, which start at lo .. hi, written over them
\* in the byte order o: the lower half of the addresses, then the upper half
\* (a write never changes the domain of m)
RECURSIVE WriteFields(_, _, _, _, _)
WriteFields(m, fs, o, lo, hi) ==
    IF fs = {} THEN m
    ELSE IF lo = hi
    THEN LET f == CHOOSE g \in fs : TRUE
             put(mm, d) == [mm EXCEPT ![f.a + d] = Digit(f.v, IF o = "big" THEN f.w - 1 - d ELSE d)]
         IN  IF f.w = 1 THEN put(m, 0)
             ELSE IF f.w = 2 THEN put(put(m, 0), 1)
             ELSE put(put(put(put(m, 0), 1), 2), 3)
    ELSE LET mid == (lo + hi) \div 2
             left == WriteFields(m, {f \in fs : f.a <= mid}, o, lo, mid)
         IN  IF DOMAIN left = DOMAIN m
             THEN WriteFields(left, {f \in fs : f.a > mid}, o, mid + 1, hi)
             ELSE m

\* header of a file with n elements per array; the fields in `nulls` hold 0;
\* with trunc the segment array starts 4 bytes before the end of the file
HeaderFields(i, t) ==
    LET P(name, target) == F(HdrPtr[name], 4, IF name \in t.nulls THEN 0 ELSE target)
    IN  {F(0, 2, 258), F(2, 1, t.n), F(3, 1, t.n), F(4, 1, t.n), F(5, 1, t.n),
         F(6, 1, t.n), F(7, 1, t.n),
         P("segment_array", IF t.trunc THEN BlobLen - 4 ELSE Lay.Seg),
         P("bone_array", Lay.Bone), P("light_array", Lay.Light),
         P("skeleton_index_array", Lay.Skel), P("material_array", Lay.Mat),
         P("collision_tree", Lay.Coll), P("tex_layer_array", Lay.TexL),
         P("mesh_is", Lay.Plat)}

CommonFields(i, t) ==
    UNION {{F(Lay.Seg + 4 * e, 4, 16909060), F(Lay.Bone + 4 * e, 4, 16909060),
            F(Lay.Light + 4 * e, 4, 16909060),
            \* material e: no light registers, surface registers, platform data on e = 0
            F(Lay.Mat + 16 * e + 4, 4, Lay.VData), F(Lay.Mat + 16 * e + 8, 2, 258),
            F(Lay.Mat + 16 * e + 12, 4, IF e = 0 THEN Lay.PMat ELSE 0),
            \* texture layer e: layer 0 has a palette of one instance, layer 1
            \* declares one flip page and no palette
            F(Lay.TexL + 8 * e + 2, 1, IF e <= 1 THEN 1 ELSE 0),
            F(Lay.TexL + 8 * e + 4, 4, IF e = 0 THEN Lay.Pal ELSE 0)} : e \in 0 .. t.n - 1}
    \cup {F(Lay.Skel + e, 1, IF e < SkelLen THEN e + 1 ELSE 7) : e \in 0 .. SkelLen + 1}
    \cup {F(Lay.Pal, 4, Lay.TexInst),
          F(Lay.TexInst, 4, Lay.TexDef), F(Lay.TexInst + 12, 4, 16909060),
          F(Lay.TexDef + 4, 2, 258), F(Lay.TexDef + 8, 4, Lay.TexData),
          F(Lay.TexData + 4, 2, 258), F(Lay.TexData + 20, 2, 258),
          F(Lay.TexData + 28, 4, Lay.VData)}

DxFields(t) ==
    UNION {{F(Lay.Vb + 32 * e + 8, 4, 1), F(Lay.Vb + 32 * e + 12, 2, 4),
            F(Lay.Vb + 32 * e + 14, 1, 4), F(Lay.Vb + 32 * e + 28, 4, Lay.VData + 4 * e),
            F(Lay.VData + 4 * e, 4, 16909060)} : e \in 0 .. t.n - 1}
    \cup (IF t.link = "cycle"
          THEN {F(Lay.Vb + 4, 4, Lay.Vb + DxVertexBufferDescriptor_t.size),
                F(Lay.Vb + DxVertexBufferDescriptor_t.size, 4, Lay.Vb)}
          ELSE IF t.link = "shared"
          THEN {F(Lay.Vb, 4, Lay.Vb + DxVertexBufferDescriptor_t.size),
                F(Lay.Vb + 4, 4, Lay.Vb + DxVertexBufferDescriptor_t.size),
                F(Lay.Vb + DxVertexBufferDescriptor_t.size + 4, 4,
                  Lay.Vb + 2 * DxVertexBufferDescriptor_t.size)}
          ELSE {})
    \cup {F(Lay.Plat, 2, 258), F(Lay.Plat + 2, 1, t.n),
          F(Lay.Plat + 3, 1, IF t.n > 0 THEN 1 ELSE 0),
          F(Lay.Plat + 4, 4, Lay.Vb), F(Lay.Plat + 12, 4, Lay.ICnt), F(Lay.Plat + 16, 4, Lay.Ibp),
          F(Lay.ICnt, 2, 2), F(Lay.Ibp, 4, Lay.Idx), F(Lay.Idx, 2, 258), F(Lay.Idx + 2, 2, 259),
          F(Lay.PMat, 4, Lay.Cluster), F(Lay.PMat + 4, 4, 1),
          F(Lay.Cluster, 2, 1), F(Lay.Cluster + 8, 4, Lay.Strip), F(Lay.Strip + 2, 2, 258)}

GcFields(t) ==
    UNION {{F(Lay.Vb + 24 * e + 2, 2, 1), F(Lay.Vb + 24 * e + 8, 4, Lay.VData + 4 * e),
            F(Lay.Vb + 24 * e + 16, 4, IF e = 0 THEN Lay.Idx ELSE 0),
            F(Lay.VData + 4 * e, 4, 16909060)} : e \in 0 .. t.n - 1}
    \cup {F(Lay.Plat + 5, 1, t.n), F(Lay.Plat + 6, 2, 258), F(Lay.Plat + 8, 4, Lay.Vb),
          F(Lay.Plat + 12, 4, Lay.Skin), F(Lay.Idx, 2, 258), F(Lay.Idx + 2, 2, 259),
          F(Lay.Skin, 2, 1), F(Lay.Skin + 4, 4, Lay.Trans), F(Lay.Skin + 8, 4, 1),
          F(Lay.Skin + 12, 4, Lay.SkinVert),
          F(Lay.Trans + 2, 2, 258), F(Lay.SkinVert, 2, 258), F(Lay.SkinVert + 2, 2, 259),
          F(Lay.PMat, 4, Lay.Cluster), F(Lay.PMat + 4, 2, 1),
          F(Lay.Cluster + 2, 2, 258), F(Lay.Cluster + 8, 4, Lay.VData)}

Fields(i, t) ==
    HeaderFields(i, t) \cup CommonFields(i, t)
        \cup (IF i = "st" THEN DxFields(t) ELSE GcFields(t))

\* the bytes of the file: every field written in the byte order o of the file
Blob(i, o, t) ==
    WriteFields([x \in 0 .. BlobLen - 1 |-> 0], Fields(i, t), o, 0, BlobLen - 1)

\* the files the model loads
NullChoices == {{}, HdrPtrNames, {"mesh_is"}, {"bone_array", "tex_layer_array"}}
\* link: the _link fields of the vertex buffer descriptors are Null ("none");
\* descriptor 0 and 1 are a doubly linked list, 0.next = 1 and 1.prev = 0
\* ("cycle"); or prev and next of descriptor 0 both point at descriptor 1,
\* whose next points at descriptor 2 ("shared")
Templates ==
    {[n |-> n, nulls |-> ns, trunc |-> FALSE, link |-> "none"] :
        n \in 0 .. MaxCount, ns \in NullChoices}
        \cup {[n |-> n, nulls |-> {}, trunc |-> TRUE, link |-> "none"] : n \in 0 .. MaxCount}
        \cup {[n |-> MaxCount, nulls |-> {"bone_array", "tex_layer_array"}, trunc |-> FALSE,
               link |-> l] : l \in {"cycle", "shared"}}

(* ------------------------------ state --------------------------------- *)
\* does loader i reverse the bytes of a structure it fixes on host h
Swaps(i, h) == IF i = "st" THEN h # "little" ELSE h # "big"

\* a nested structure is entered through fix (swap, then fix_offset) in st.rs
\* and raw.rs, and through fix_offsets alone in formats/mesh/raw.rs
EntryPc(i) == IF i = "ptr" THEN 1 ELSE 0

\* the address w holds size bytes of the blob
InBlobW(w, size) == w[1] = 0 /\ w[2] >= Base /\ (w[2] - Base) + size <= BlobLen
Off(w) == w[2] - Base

NewFrame(ty, addr, pc) == [ty |-> ty, addr |-> addr, pc |-> pc, i |-> -1, n |-> 0, p |-> NULL]
NoRet == [op |-> "none", some |-> FALSE, len |-> 0, p |-> NULL, val |-> 0]
\* no vertex buffer under decode, no decode result
NoVb == [plat |-> "none", tag |-> 0, skinned |-> FALSE, frac |-> 0, stride |-> 0, null |-> TRUE,
         wild |-> FALSE, data |-> <<>>]
NoOut == [op |-> "none", index |-> 0, res |-> "none", kind |-> "none", vals |-> <<>>]

Init ==
    /\ impl \in {"st", "raw", "ptr"}
    /\ host \in {"little", "big"}
    /\ order \in {"little", "big"}
    /\ tpl \in Templates
    /\ mem = Blob(impl, order, tpl)
    /\ stack = <<>>
    /\ status = "file"
    /\ swapCnt = [x \in 0 .. BlobLen - 1 |-> 0]
    /\ relocCnt = [x \in 0 .. BlobLen - 1 |-> 0]
    /\ visited = {}
    /\ fixes = 0
    /\ ret = NoRet
    /\ vb = NoVb
    /\ out = NoOut
    /\ reader = [pos |-> 0, start |-> 0]
    /\ pointer = [value |-> NULL, stored |-> NULL, base |-> <<0, 0, Base>>, res |-> "stored"]

Top == stack[Len(stack)]
Op == Prog(impl, Top.ty)[Top.pc]
HasOp == status = "loading" /\ stack # <<>> /\ Top.pc >= 1 /\ Top.pc <= Len(Prog(impl, Top.ty))
SetTop(f) == [stack EXCEPT ![Len(stack)] = f]
Next1(f) == [f EXCEPT !.pc = f.pc + 1, !.i = -1, !.n = 0, !.p = NULL]
\* the field at a after fix_offset, and the blob with it written back
Fixed(a) == fix_offset(RdW(mem, a, host))
Bump(cnt, a) == IF RdW(mem, a, host) # NULL THEN [cnt EXCEPT ![a] = @ + 1] ELSE cnt


(* ---------------------------- the loader ------------------------------ *)
\* load_memory_struct: cast the blob to the root structure and call fix on it
Load ==
    /\ status = "file"
    /\ status' = "loading"
    /\ stack' = <<NewFrame("FMesh", 0, 0)>>
    /\ fixes' = 1
    /\ visited' = {<<"FMesh", 0>>}
    /\ UNCHANGED <<reader, pointer, vb, out, impl, host, order, tpl, mem, swapCnt, relocCnt, ret>>

\* Fixable::fix, first half: swap_bytes_mut under the cfg of the loader
SwapBytes ==
    /\ status = "loading" /\ stack # <<>> /\ Top.pc = 0
    /\ LET f == Top
           fs == TypeInfo(f.ty).swap
       IN  /\ mem' = IF Swaps(impl, host) THEN swap_bytes_mut(mem, fs, f.addr) ELSE mem
           /\ swapCnt' = IF Swaps(impl, host)
                         THEN CountSwap(swapCnt, fs, f.addr)
                         ELSE swapCnt
           /\ stack' = SetTop([f EXCEPT !.pc = 1])
    /\ UNCHANGED <<reader, pointer, vb, out, impl, host, order, tpl, status, relocCnt, fixes, ret, visited>>

\* self.f = fix_offset(self.f, ptr)
Relocate ==
    /\ HasOp /\ Op.k = "reloc"
    /\ LET a == Top.addr + Op.off
       IN  /\ mem' = WrW(mem, a, host, Fixed(a))
           /\ relocCnt' = Bump(relocCnt, a)
    /\ stack' = SetTop(Next1(Top))
    /\ UNCHANGED <<reader, pointer, vb, out, impl, host, order, tpl, status, swapCnt, fixes, ret, visited>>

\* FGCDLCont: the buffer is relocated unless the container is streaming
RelocateUnlessStreaming ==
    /\ HasOp /\ Op.k = "relocns"
    /\ LET a == Top.addr + Op.off
           streaming == (mem[Top.addr + Op.cnt] \div 128) % 2 = 1
       IN  /\ mem' = IF streaming THEN mem ELSE WrW(mem, a, host, Fixed(a))
           /\ relocCnt' = IF streaming THEN relocCnt ELSE Bump(relocCnt, a)
    /\ stack' = SetTop(Next1(Top))
    /\ UNCHANGED <<reader, pointer, vb, out, impl, host, order, tpl, status, swapCnt, fixes, ret, visited>>

\* try_fix: relocate the pointer, then fix the structure behind it
try_fix ==
    /\ HasOp /\ Op.k = "fix"
    /\ LET a == Top.addr + Op.off
           w == Fixed(a)
       IN  /\ mem' = WrW(mem, a, host, w)
           /\ relocCnt' = Bump(relocCnt, a)
           /\ IF w = NULL
              THEN stack' = SetTop(Next1(Top)) /\ status' = status /\ visited' = visited
              ELSE IF InBlobW(w, SizeOf(Op.ty)) /\ Len(stack) < MaxDepth
              THEN /\ stack' = Append(SetTop(Next1(Top)), NewFrame(Op.ty, Off(w), EntryPc(impl)))
                   /\ visited' = visited \cup {<<Op.ty, Off(w)>>}
                   /\ status' = status
              ELSE stack' = stack /\ status' = "ub" /\ visited' = visited
    /\ UNCHANGED <<reader, pointer, vb, out, impl, host, order, tpl, swapCnt, fixes, ret>>

\* self.f.fix_offset(ptr) of an embedded structure
FixEmbedded ==
    /\ HasOp /\ Op.k = "emb"
    /\ Len(stack) < MaxDepth
    /\ stack' = Append(SetTop(Next1(Top)), NewFrame(Op.ty, Top.addr + Op.off, 1))
    /\ visited' = visited \cup {<<Op.ty, Top.addr + Op.off>>}
    /\ UNCHANGED <<reader, pointer, vb, out, impl, host, order, tpl, mem, status, swapCnt, relocCnt, fixes, ret>>

\* try_fix_array, first half: relocate the array pointer; a Null pointer
\* gives no slice (array_ptr_mut) and the count is not used
ArrayBegin ==
    /\ HasOp /\ Op.k \in {"arr", "parr", "ixb"} /\ Top.i = -1
    /\ LET a == Top.addr + Op.off
           w == Fixed(a)
           n == IF Op.k = "ixb" THEN RdN(mem, Top.addr + Op.cnt, 1, host)
                ELSE RdCount(mem, Top.addr + Op.cnt, Op.cw, host)
       IN  /\ mem' = WrW(mem, a, host, w)
           /\ relocCnt' = Bump(relocCnt, a)
           /\ stack' = IF w = NULL THEN SetTop(Next1(Top))
                       ELSE SetTop([Top EXCEPT !.i = 0, !.n = n, !.p = w])
    /\ UNCHANGED <<reader, pointer, vb, out, impl, host, order, tpl, status, swapCnt, fixes, ret, visited>>

\* try_fix_array, the loop: array.iter_mut().for_each(|value| value.fix(ptr))
ArrayElem ==
    /\ HasOp /\ Op.k = "arr" /\ Top.i >= 0 /\ Top.i < Top.n
    /\ LET e == AddN(Top.p, Top.i * SizeOf(Op.ty))
       IN  IF InBlobW(e, SizeOf(Op.ty)) /\ Len(stack) < MaxDepth
           THEN /\ stack' = Append(SetTop([Top EXCEPT !.i = Top.i + 1]),
                                   NewFrame(Op.ty, Off(e), EntryPc(impl)))
                /\ visited' = visited \cup {<<Op.ty, Off(e)>>}
                /\ status' = status
           ELSE stack' = stack /\ status' = "ub" /\ visited' = visited
    /\ UNCHANGED <<reader, pointer, vb, out, impl, host, order, tpl, mem, swapCnt, relocCnt, fixes, ret>>

\* the flip palette: try_fix on every element of the relocated pointer array
PtrArrayElem ==
    /\ HasOp /\ Op.k = "parr" /\ Top.i >= 0 /\ Top.i < Top.n
    /\ LET s == AddN(Top.p, 4 * Top.i)
       IN  IF ~InBlobW(s, 4)
           THEN /\ stack' = stack /\ status' = "ub"
                /\ UNCHANGED <<mem, relocCnt, visited>>
           ELSE LET w == Fixed(Off(s))
                IN  /\ mem' = WrW(mem, Off(s), host, w)
                    /\ relocCnt' = Bump(relocCnt, Off(s))
                    /\ IF w = NULL
                       THEN /\ stack' = SetTop([Top EXCEPT !.i = Top.i + 1])
                            /\ status' = status /\ visited' = visited
                       ELSE IF InBlobW(w, SizeOf(Op.ty)) /\ Len(stack) < MaxDepth
                       THEN /\ stack' = Append(SetTop([Top EXCEPT !.i = Top.i + 1]),
                                               NewFrame(Op.ty, Off(w), EntryPc(impl)))
                            /\ visited' = visited \cup {<<Op.ty, Off(w)>>}
                            /\ status' = status
                       ELSE stack' = stack /\ status' = "ub" /\ visited' = visited
    /\ UNCHANGED <<reader, pointer, vb, out, impl, host, order, tpl, swapCnt, fixes, ret>>

\* DxMesh: slot i of the index-buffer array, try_fix_array with index_count(i)
IndexBufferElem ==
    /\ HasOp /\ Op.k = "ixb" /\ Top.i >= 0 /\ Top.i < Top.n
    /\ LET cp == AddN(RdW(mem, Top.addr + Op.cw, host), 2 * Top.i)
           s == AddN(Top.p, 4 * Top.i)
       IN  IF ~InBlobW(cp, 2) \/ ~InBlobW(s, 4)
           THEN /\ stack' = stack /\ status' = "ub"
                /\ UNCHANGED <<mem, relocCnt, swapCnt>>
           ELSE LET length == RdN(mem, Off(cp), 2, host)
                    w == Fixed(Off(s))
                    m1 == WrW(mem, Off(s), host, w)
                    fs == [j \in 1 .. length |-> <<2 * (j - 1), 2>>]
                    touch == w # NULL /\ Swaps(impl, host) /\ length > 0
                IN  IF touch /\ ~InBlobW(w, 2 * length)
                    THEN /\ stack' = stack /\ status' = "ub"
                         /\ mem' = m1 /\ relocCnt' = Bump(relocCnt, Off(s))
                         /\ UNCHANGED swapCnt
                    ELSE /\ mem' = IF touch THEN swap_bytes_mut(m1, fs, Off(w)) ELSE m1
                         /\ swapCnt' = IF touch
                                       THEN CountSwap(swapCnt, fs, Off(w))
                                       ELSE swapCnt
                         /\ relocCnt' = Bump(relocCnt, Off(s))
                         /\ stack' = SetTop([Top EXCEPT !.i = Top.i + 1])
                         /\ status' = status
    /\ UNCHANGED <<reader, pointer, vb, out, impl, host, order, tpl, fixes, ret, visited>>

\* the end of an array loop
ArrayEnd ==
    /\ HasOp /\ Op.k \in {"arr", "parr", "ixb"} /\ Top.i >= 0 /\ Top.i >= Top.n
    /\ stack' = SetTop(Next1(Top))
    /\ UNCHANGED <<reader, pointer, vb, out, impl, host, order, tpl, mem, status, swapCnt, relocCnt, fixes, ret, visited>>

\* fix_offset returns; the outermost return ends load_memory_struct
Return ==
    /\ status = "loading" /\ stack # <<>> /\ Top.pc > Len(Prog(impl, Top.ty))
    /\ stack' = SubSeq(stack, 1, Len(stack) - 1)
    /\ status' = IF Len(stack) = 1 THEN "loaded" ELSE status
    /\ UNCHANGED <<reader, pointer, vb, out, impl, host, order, tpl, mem, swapCnt, relocCnt, fixes, ret, visited>>

(* --------------------------- the document ----------------------------- *)
\* array_ptr with a slice one element too long
array_ptr_one_more(w, length) ==
    IF w = NULL THEN [NoRet EXCEPT !.some = FALSE]
    ELSE [NoRet EXCEPT !.some = TRUE, !.len = length + 1, !.p = w]

\* st.rs / raw.rs array_ptr: None for a Null pointer, else length elements
array_ptr(w, length) ==
    IF w = NULL THEN [NoRet EXCEPT !.some = FALSE]
    ELSE [NoRet EXCEPT !.some = TRUE, !.len = length, !.p = w]

\* Ptr::as_slice: from_raw_parts(self.ptr(), length), whatever the pointer
as_slice(w, length) == [NoRet EXCEPT !.some = TRUE, !.len = length, !.p = w]

\* the (pointer, count) accessors of FMesh: offsets of the two fields
Accessors ==
    [segments |-> [p |-> 8, c |-> 3, ty |-> "FMeshSegment"],
     bones |-> [p |-> 12, c |-> 2, ty |-> "FMeshBone"],
     lights |-> [p |-> 16, c |-> 5, ty |-> "FMeshLight"],
     materials |-> [p |-> 24, c |-> 6, ty |-> "FMeshMaterial"],
     tex_layers |-> [p |-> 32, c |-> 4, ty |-> "FMeshTexLayerID"],
     collision_tree |-> [p |-> 28, c |-> 7, ty |-> "unit"]]

\* the slice an accessor of loader i builds from the pointer w and the count
SliceOf(i, w, length) == IF i = "ptr" THEN as_slice(w, length) ELSE array_ptr(w, length)

\* segments(), bones(), lights(), materials(), tex_layers(), collision_tree().
\* from_raw_parts on a Null pointer (formats/mesh/raw.rs) is undefined: the
\* build either hands out the slice of `count` elements or stops at the
\* precondition check of a debug build
Accessor ==
    /\ status = "loaded"
    /\ \E name \in DOMAIN Accessors :
        LET a == Accessors[name]
            w == RdW(mem, a.p, host)
            r == SliceOf(impl, w, RdN(mem, a.c, 1, host))
        IN  \/ ret' = [r EXCEPT !.op = name] /\ status' = status
            \/ impl = "ptr" /\ w = NULL /\ ret' = [NoRet EXCEPT !.op = name] /\ status' = "ub"
    /\ UNCHANGED <<reader, pointer, vb, out, impl, host, order, tpl, mem, stack, swapCnt, relocCnt, fixes, visited>>

\* impl_specific(): as_ref / try_deref of mesh_is
impl_specific ==
    /\ status = "loaded"
    /\ LET w == RdW(mem, HdrPtr.mesh_is, host)
       IN  ret' = [NoRet EXCEPT !.op = "impl_specific", !.some = (w # NULL), !.p = w]
    /\ UNCHANGED <<reader, pointer, vb, out, impl, host, order, tpl, mem, stack, status, swapCnt, relocCnt, fixes, visited>>

\* vertex_buffers() of the platform structure behind mesh_is
\* (main.rs: impl_specific().unwrap() panics on None)
vertex_buffers ==
    /\ status = "loaded"
    /\ LET w == RdW(mem, HdrPtr.mesh_is, host)
           po == IF impl = "st" THEN 4 ELSE 8
           co == IF impl = "st" THEN 2 ELSE 5
       IN  IF w = NULL
           THEN ret' = [NoRet EXCEPT !.op = "unwrap"] /\ status' = "panic"
           ELSE IF ~InBlobW(w, SizeOf(MeshIS(impl)))
           THEN ret' = [NoRet EXCEPT !.op = "vertex_buffers"] /\ status' = "ub"
           ELSE LET v == RdW(mem, Off(w) + po, host)
                    r == SliceOf(impl, v, RdN(mem, Off(w) + co, 1, host))
                IN  \/ ret' = [r EXCEPT !.op = "vertex_buffers"] /\ status' = status
                    \/ /\ impl = "ptr" /\ v = NULL
                       /\ ret' = [NoRet EXCEPT !.op = "vertex_buffers"] /\ status' = "ub"
    /\ UNCHANGED <<reader, pointer, vb, out, impl, host, order, tpl, mem, stack, swapCnt, relocCnt, fixes, visited>>

\* the indices skeleton_index is called with
MaxIndex == SkelLen + 1

\* skeleton_index(index): *array.offset(index); st.rs and raw.rs return None
\* for a Null array, formats/mesh/raw.rs reads through the pointer as it is
skeleton_index ==
    /\ status = "loaded"
    /\ \E index \in 0 .. MaxIndex :
        LET w == RdW(mem, HdrPtr.skeleton_index_array, host)
            e == AddN(w, index)
        IN  IF impl # "ptr" /\ w = NULL
            THEN ret' = [NoRet EXCEPT !.op = "skeleton_index", !.len = index] /\ status' = status
            ELSE IF InBlobW(e, 1)
            THEN /\ ret' = [NoRet EXCEPT !.op = "skeleton_index", !.some = TRUE, !.len = index,
                                         !.p = e, !.val = mem[Off(e)]]
                 /\ status' = status
            ELSE ret' = [NoRet EXCEPT !.op = "skeleton_index", !.len = index] /\ status' = "ub"
    /\ UNCHANGED <<reader, pointer, vb, out, impl, host, order, tpl, mem, stack, swapCnt, relocCnt, fixes, visited>>

(* --------------------------- vertex decoding --------------------------- *)
\* An f32 is the pair <<m, e>> standing for m * 2^-e, kept with m odd or
\* e = 0; every value the decoders compute is such a dyadic rational and is
\* exact in an f32 (|m| < 2^24).
RECURSIVE NormF(_)
NormF(f) == IF f[2] > 0 /\ f[1] % 2 = 0 THEN NormF(<<f[1] \div 2, f[2] - 1>>) ELSE f

\* `n as f32` of an i8 / i16
as_f32(n) == NormF(<<n, 0>>)

\* f32 multiplication
MulF(a, b) == NormF(<<a[1] * b[1], a[2] + b[2]>>)

\* the constant expression (1. / d) for d a power of two
RECURSIVE Recip(_)
Recip(d) == IF d = 1 THEN <<1, 0>> ELSE <<1, Recip(d \div 2)[2] + 1>>

\* gc.rs POS_FRACTIONAL_ADJUSTMENT; Rust index i is element i + 1
POS_FRACTIONAL_ADJUSTMENT ==
    <<as_f32(1), Recip(2), Recip(4), Recip(8), Recip(16), Recip(32), Recip(64), Recip(128),
      Recip(256), Recip(512), Recip(1024), Recip(2048), Recip(4096), Recip(8192),
      Recip(16384), Recip(32768)>>

\* gc.rs GxCompType (repr(u8)) and dx.rs DxVertexBufferType (repr(i8))
GxCompType == [U8 |-> 0, S8 |-> 1, U16 |-> 2, S16 |-> 3, F32 |-> 4]
DxVertexBufferType ==
    [Shader |-> -1, N1C1T1 |-> 0, N1C1T2 |-> 1, N1W3C1T1 |-> 2, N1W3C1T2 |-> 3,
     TLC2T2 |-> 4, C1 |-> 5, C1T1 |-> 6]
TagValues(enum) == {enum[name] : name \in DOMAIN enum}

\* what a decode operation hands back: res is "some" / "none" for an Option,
\* "vec" for a Vec, "panic" for a panic (expect, unwrap, panic!, todo!) and
\* "ub" when the match ran on a value that is no variant of its enum
Outcome(res, kind, vals) ==
    [op |-> "none", index |-> 0, res |-> res, kind |-> kind, vals |-> vals]
Panicked == Outcome("panic", "none", <<>>)
Undefined == Outcome("ub", "none", <<>>)

\* positions_typed / array_ptr(position_buffer.cast(), position_count)
positions_typed(v, kind) ==
    IF v.null THEN Outcome("none", "none", <<>>) ELSE Outcome("some", kind, v.data)

\* GxVertexBuffer::positions; a position_type byte that is no GxCompType is an
\* invalid enum value, the match on it is undefined: the build reaches the
\* panic of the default arm or runs one of the arms on the buffer
GxVertexBuffer_positions(v) ==
    IF v.tag \notin TagValues(GxCompType) THEN {Panicked, Undefined}
    ELSE IF v.tag = GxCompType.S8 THEN {positions_typed(v, "S8")}
    ELSE IF v.tag = GxCompType.S16
    THEN {positions_typed(v, IF v.skinned THEN "SkinnedS16" ELSE "S16")}
    ELSE IF v.tag = GxCompType.F32 THEN {positions_typed(v, "F32")}
    ELSE {Panicked}

\* the two expects that open normalized and get_position: the positions, then
\* POS_FRACTIONAL_ADJUSTMENT.get(position_fraction_bits)
Expected(v, p) ==
    IF p.res = "ub" THEN Undefined
    ELSE IF p.res # "some" THEN Panicked
    ELSE IF v.frac >= Len(POS_FRACTIONAL_ADJUSTMENT) THEN Panicked
    ELSE p

\* one position as GxPosF32, every component multiplied by adjust
Scaled(kind, value, adjust) ==
    IF kind = "F32" THEN value
    ELSE <<MulF(as_f32(value[1]), adjust), MulF(as_f32(value[2]), adjust),
           MulF(as_f32(value[3]), adjust)>>

\* GxVertexBuffer::normalized: adjust is read and never applied
GxVertexBuffer_normalized(v) ==
    {LET q == Expected(v, p)
     IN  IF q.res # "some" THEN q
         ELSE Outcome("vec", "F32",
                      [k \in 1 .. Len(q.vals) |-> Scaled(q.kind, q.vals[k], as_f32(1))])
     : p \in GxVertexBuffer_positions(v)}

\* get_position without the multiplication by adjust
GxVertexBuffer_get_position_unscaled(v, index) ==
    {LET q == Expected(v, p)
     IN  IF q.res # "some" THEN q
         ELSE IF index >= Len(q.vals) THEN Outcome("none", "none", <<>>)
         ELSE Outcome("some", "F32", <<Scaled(q.kind, q.vals[index + 1], as_f32(1))>>)
     : p \in GxVertexBuffer_positions(v)}

\* GxVertexBuffer::get_position(index)
GxVertexBuffer_get_position(v, index) ==
    {LET q == Expected(v, p)
     IN  IF q.res # "some" THEN q
         ELSE IF index >= Len(q.vals) THEN Outcome("none", "none", <<>>)
         ELSE Outcome("some", "F32",
                      <<Scaled(q.kind, q.vals[index + 1],
                               POS_FRACTIONAL_ADJUSTMENT[v.frac + 1])>>)
     : p \in GxVertexBuffer_positions(v)}

\* dx.rs vertex records: size in bytes, and whether the record starts with a
\* position (C1 and C1T1 start with a color)
DxLayouts ==
    [N1C1T1 |-> [size |-> 36, position |-> TRUE],
     N1C1T2 |-> [size |-> 44, position |-> TRUE],
     N1W3C1T1 |-> [size |-> 48, position |-> TRUE],
     N1W3C1T2 |-> [size |-> 56, position |-> TRUE],
     TLC2T2 |-> [size |-> 40, position |-> TRUE],
     C1 |-> [size |-> 12, position |-> FALSE],
     C1T1 |-> [size |-> 24, position |-> FALSE]]
TagName(enum, t) == CHOOSE name \in DOMAIN enum : enum[name] = t

\* DxVertexBufferDescriptor::buffer_values: None for Shader, else
\* array_ptr_mut(vertex_buffer.cast(), vertex_count); bytes_per_vertex is
\* not read
DxVertexBufferDescriptor_buffer_values(v) ==
    IF v.tag \notin TagValues(DxVertexBufferType) THEN Undefined
    ELSE IF v.tag = DxVertexBufferType.Shader \/ v.null THEN Outcome("none", "none", <<>>)
    ELSE IF v.wild THEN Undefined
    ELSE Outcome("some", TagName(DxVertexBufferType, v.tag), v.data)

\* DxVertexBufferDescriptor::positions: buffer_values().unwrap(), then
\* value.position.clone() of every record; todo!() for C1 and C1T1
DxVertexBufferDescriptor_positions(v) ==
    LET b == DxVertexBufferDescriptor_buffer_values(v)
    IN  IF b.res = "ub" THEN Undefined
        ELSE IF b.res # "some" THEN Panicked
        ELSE IF ~DxLayouts[b.kind].position THEN Panicked
        ELSE Outcome("vec", "f32x3", [k \in 1 .. Len(b.vals) |-> b.vals[k].position])

\* a decode call returns r: a document that was loaded is left by a panic
\* or by undefined behaviour
Decoded(r) ==
    /\ out' = r
    /\ status' = IF status = "loaded" /\ r.res \in {"panic", "ub"} THEN r.res ELSE status
    /\ UNCHANGED <<reader, pointer, vb, impl, host, order, tpl, mem, stack, swapCnt, relocCnt, fixes, visited, ret>>

\* GxVertexBuffer::positions()
gx_positions ==
    /\ vb.plat = "gc"
    /\ \E r \in GxVertexBuffer_positions(vb) : Decoded([r EXCEPT !.op = "gx_positions"])

\* GxVertexBuffer::normalized()
normalized ==
    /\ vb.plat = "gc"
    /\ \E r \in GxVertexBuffer_normalized(vb) : Decoded([r EXCEPT !.op = "normalized"])

\* GxVertexBuffer::get_position(index)
get_position ==
    /\ vb.plat = "gc"
    /\ \E index \in 0 .. MaxCount :
          \E r \in GxVertexBuffer_get_position(vb, index) :
              Decoded([r EXCEPT !.op = "get_position", !.index = index])

\* buffer_values writing the converted records back into the buffer
buffer_values_writing ==
    /\ vb.plat = "dx"
    /\ status \in {"loaded", "decode"}
    /\ out' = [DxVertexBufferDescriptor_buffer_values(vb) EXCEPT !.op = "buffer_values"]
    /\ mem' = [x \in DOMAIN mem |-> IF x = BlobLen - 1 THEN 255 - mem[x] ELSE mem[x]]
    /\ UNCHANGED <<reader, pointer, vb, impl, host, order, tpl, stack, status, swapCnt, relocCnt, fixes, visited, ret>>

\* DxVertexBufferDescriptor::buffer_values()
buffer_values ==
    /\ vb.plat = "dx"
    /\ status \in {"loaded", "decode"}
    /\ Decoded([DxVertexBufferDescriptor_buffer_values(vb) EXCEPT !.op = "buffer_values"])

\* DxVertexBufferDescriptor::positions()
positions ==
    /\ vb.plat = "dx"
    /\ status \in {"loaded", "decode"}
    /\ Decoded([DxVertexBufferDescriptor_positions(vb) EXCEPT !.op = "positions"])

\* main.rs: vertex_buffers_mut().unwrap() and one turn of `for buffer in
\* vertex_buffer`: the descriptor e of the slice as the decoders read it.
\* The compacted vertex record is the first float of its position.
NextBuffer ==
    /\ status = "loaded"
    /\ impl = "st"
    /\ ret.op = "vertex_buffers"
    /\ ret.some
    /\ \E e \in 0 .. ret.len - 1 :
        LET d == AddN(ret.p, e * DxVertexBufferDescriptor_t.size)
        IN  IF ~InBlobW(d, DxVertexBufferDescriptor_t.size)
            THEN vb' = vb /\ status' = "ub"
            ELSE LET o == Off(d)
                     count == RdCount(mem, o + 8, 4, host)
                     t == RdN(mem, o + 14, 1, host)
                     p == RdW(mem, o + 28, host)
                     inside == InBlobW(p, count * 4)
                 IN  /\ vb' = [plat |-> "dx",
                               tag |-> IF t > 127 THEN t - 256 ELSE t,
                               skinned |-> FALSE,
                               frac |-> 0,
                               stride |-> RdN(mem, o + 12, 2, host),
                               null |-> (p = NULL),
                               wild |-> ~inside,
                               data |-> IF ~inside THEN <<>>
                                        ELSE [k \in 1 .. count |->
                                                [position |->
                                                    <<RdW(mem, Off(p) + 4 * (k - 1), host),
                                                      NULL, NULL>>]]]
                     /\ status' = status
    /\ out' = NoOut
    /\ UNCHANGED <<reader, pointer, impl, host, order, tpl, mem, stack, swapCnt, relocCnt, fixes, visited, ret>>

\* DxMesh::index_buffer(index) of the DxMesh at w: None for a Null
\* index_buffer or a Null slot, else array_ptr(slot, index_count(index))
DxMesh_index_buffer(w, index) ==
    LET ib == RdW(mem, Off(w) + 16, host)
        ca == AddN(RdW(mem, Off(w) + 12, host), 2 * index)
        pa == AddN(ib, 4 * index)
    IN  IF ib = NULL THEN Outcome("none", "none", <<>>)
        ELSE IF ~InBlobW(ca, 2) \/ ~InBlobW(pa, 4) THEN Undefined
        ELSE LET length == RdN(mem, Off(ca), 2, host)
                 ptr == RdW(mem, Off(pa), host)
             IN  IF ptr = NULL THEN Outcome("none", "none", <<>>)
                 ELSE IF ~InBlobW(ptr, 2 * length) THEN Undefined
                 ELSE Outcome("some", "u16",
                              [k \in 1 .. length |->
                                  RdN(mem, Off(ptr) + 2 * (k - 1), 2, host)])

\* DxMesh::index_buffers() on the reference impl_specific() returned, and
\* main.rs reading the values: the Some buffers of 0 .. index_buffer_count
index_buffers ==
    /\ status = "loaded"
    /\ impl = "st"
    /\ ret.op = "impl_specific"
    /\ ret.some
    /\ LET w == ret.p
       IN  IF ~InBlobW(w, DxMesh_t.size) THEN Decoded([Undefined EXCEPT !.op = "index_buffers"])
           ELSE LET n == RdN(mem, Off(w) + 3, 1, host)
                    all == [i \in 1 .. n |-> DxMesh_index_buffer(w, i - 1)]
                    IsSome(b) == b.res = "some"
                    some == SelectSeq(all, IsSome)
                IN  IF \E i \in 1 .. n : all[i].res = "ub"
                    THEN Decoded([Undefined EXCEPT !.op = "index_buffers"])
                    ELSE Decoded([Outcome("vec", "u16", [i \in 1 .. Len(some) |-> some[i].vals])
                                    EXCEPT !.op = "index_buffers"])

\* DxMesh::index_buffer(index) called on the reference impl_specific()
\* returned, with an index the caller chooses
index_buffer ==
    /\ status = "loaded"
    /\ impl = "st"
    /\ ret.op = "impl_specific"
    /\ ret.some
    /\ \E index \in 0 .. MaxIndex :
        LET r == IF InBlobW(ret.p, DxMesh_t.size) THEN DxMesh_index_buffer(ret.p, index)
                 ELSE Undefined
        IN  Decoded([r EXCEPT !.op = "index_buffer", !.index = index])

\* DerefMut hands out &mut T, so a caller can run fix on the document again
FixAgain ==
    /\ status = "loaded"
    /\ fixes < 1 + MaxRefix
    /\ fixes' = fixes + 1
    /\ status' = "loading"
    /\ stack' = <<NewFrame("FMesh", 0, 0)>>
    /\ ret' = NoRet
    /\ vb' = NoVb
    /\ out' = NoOut
    /\ UNCHANGED <<reader, pointer, impl, host, order, tpl, mem, swapCnt, relocCnt, visited>>

\* Drop for SafeBuffer: Box::from_raw(self.ptr.cast::<u8>()) rebuilds a Box<u8>
\* and drops it, so the allocator gets the pointer with the layout of one u8
\* (ret.len is the size of that layout).  The borrows handed out by the
\* accessors end before the owner is dropped.
Drop ==
    /\ status = "loaded"
    /\ status' = "dropped"
    /\ ret' = [NoRet EXCEPT !.op = "dealloc", !.some = TRUE, !.len = 1, !.p = <<0, Base>>]
    /\ vb' = NoVb
    /\ out' = NoOut
    /\ UNCHANGED <<reader, pointer, impl, host, order, tpl, mem, stack, swapCnt, relocCnt, fixes, visited>>

Next ==
    \/ Load
    \/ SwapBytes
    \/ Relocate
    \/ RelocateUnlessStreaming
    \/ try_fix
    \/ FixEmbedded
    \/ ArrayBegin
    \/ ArrayElem
    \/ PtrArrayElem
    \/ IndexBufferElem
    \/ ArrayEnd
    \/ Return
    \/ Accessor
    \/ impl_specific
    \/ vertex_buffers
    \/ skeleton_index
    \/ NextBuffer
    \/ index_buffers
    \/ index_buffer
    \/ buffer_values
    \/ positions
    \/ FixAgain
    \/ Drop

Spec == Init /\ [][Next]_vars

\* the steps of load_memory_struct: it runs fix to its end without suspending
LoadStep ==
    \/ Load
    \/ SwapBytes
    \/ Relocate
    \/ RelocateUnlessStreaming
    \/ try_fix
    \/ FixEmbedded
    \/ ArrayBegin
    \/ ArrayElem
    \/ PtrArrayElem
    \/ IndexBufferElem
    \/ ArrayEnd
    \/ Return

\* Spec with a load that keeps running while it has a step to take
FairSpec == Spec /\ WF_vars(LoadStep)

(* ------------------ the decoders on their own inputs ------------------- *)
\* the stored position values the decoders are run on
S8Values == {-128, 5, 127}
S16Values == {-32768, 256, 32767}
F32Values == {<<1, 0>>, <<3, 1>>, <<-5, 2>>}
\* a position_type byte that is no GxCompType
BadTag == 99

\* position_count positions x, 1, -1; x, 2, -2; ...
GxData(x, count, float) ==
    [k \in 1 .. count |->
        IF float THEN <<x, as_f32(k), as_f32(0 - k)>> ELSE <<x, k, 0 - k>>]

\* the GxVertexBuffer values: every position type and the byte BadTag, both
\* values of the SKINNED flag, position_fraction_bits 0 .. 16, a Null or a
\* valid position_buffer of 0 .. MaxCount positions
GxInputs ==
    {[plat |-> "gc", tag |-> t, skinned |-> s, frac |-> f, stride |-> 0, null |-> TRUE,
      wild |-> FALSE, data |-> <<>>] :
        t \in TagValues(GxCompType) \cup {BadTag}, s \in BOOLEAN,
        f \in 0 .. Len(POS_FRACTIONAL_ADJUSTMENT)}
    \cup UNION {
        {[plat |-> "gc", tag |-> t, skinned |-> s, frac |-> f, stride |-> 0, null |-> FALSE,
          wild |-> FALSE, data |-> GxData(x, c, t = GxCompType.F32)] :
            s \in BOOLEAN, f \in 0 .. Len(POS_FRACTIONAL_ADJUSTMENT), c \in 0 .. MaxCount,
            x \in IF t = GxCompType.S8 THEN S8Values
                  ELSE IF t = GxCompType.S16 THEN S16Values
                  ELSE IF t = GxCompType.F32 THEN F32Values
                  ELSE {256}} :
        t \in TagValues(GxCompType) \cup {BadTag}}

\* vertex_count records of the layout of tag t, the first three floats x, k, -k
DxData(t, x, count) ==
    [k \in 1 .. count |->
        IF t # DxVertexBufferType.Shader /\ ~DxLayouts[TagName(DxVertexBufferType, t)].position
        THEN [color |-> <<x, as_f32(k), as_f32(0 - k)>>]
        ELSE [position |-> <<x, as_f32(k), as_f32(0 - k)>>]]

\* the DxVertexBufferDescriptor values: every tag, bytes_per_vertex equal to
\* the record size of the tag or 4 bytes short of it (that of TLC2T2 for
\* Shader), a Null or a valid vertex_buffer of 0 .. MaxCount records
DxInputs ==
    UNION {
        LET size == IF t = DxVertexBufferType.Shader THEN DxLayouts.TLC2T2.size
                    ELSE DxLayouts[TagName(DxVertexBufferType, t)].size
        IN  {[plat |-> "dx", tag |-> t, skinned |-> FALSE, frac |-> 0, stride |-> b,
              null |-> TRUE, wild |-> FALSE, data |-> <<>>] : b \in {size, size - 4}}
            \cup {[plat |-> "dx", tag |-> t, skinned |-> FALSE, frac |-> 0, stride |-> b,
                   null |-> FALSE, wild |-> FALSE, data |-> DxData(t, x, c)] :
                    b \in {size, size - 4}, c \in 0 .. MaxCount, x \in F32Values} :
        t \in TagValues(DxVertexBufferType)}

DecodeInit ==
    /\ vb \in GxInputs \cup DxInputs
    /\ out = NoOut
    /\ reader = [pos |-> 0, start |-> 0]
    /\ pointer = [value |-> NULL, stored |-> NULL, base |-> <<0, 0, Base>>, res |-> "stored"]
    /\ status = "decode"
    /\ impl = "st"
    /\ host = "little"
    /\ order = "little"
    /\ tpl = [n |-> 0, nulls |-> {}, trunc |-> FALSE, link |-> "none"]
    /\ mem = <<>>
    /\ stack = <<>>
    /\ swapCnt = <<>>
    /\ relocCnt = <<>>
    /\ visited = {}
    /\ fixes = 0
    /\ ret = NoRet

DecodeNext ==
    \/ gx_positions
    \/ normalized
    \/ get_position
    \/ buffer_values
    \/ positions

DecodeSpec == DecodeInit /\ [][DecodeNext]_vars

(* --------------- raw/gc.rs: the GameCube mesh of the st loader -------- *)
\* elements per array of the GameCube vertex buffer and mesh skin
MaxGx == 2

\* sizes and multi-byte fields (derived SwapBytes) of the gc.rs structures
GxType ==
    [GxVertexBuffer |-> [size |-> 28,
                         swap |-> <<<<0, 2>>, <<2, 2>>, <<8, 2>>, <<12, 4>>, <<16, 4>>,
                                    <<20, 4>>, <<24, 4>>>>],
     GxSt |-> [size |-> 4, swap |-> <<<<0, 2>>, <<2, 2>>>>],
     GxPosS8 |-> [size |-> 3, swap |-> <<>>],
     GxPosS16 |-> [size |-> 6, swap |-> <<<<0, 2>>, <<2, 2>>, <<4, 2>>>>],
     GxSkinPosNorm |-> [size |-> 12,
                        swap |-> <<<<0, 2>>, <<2, 2>>, <<4, 2>>, <<6, 2>>, <<8, 2>>, <<10, 2>>>>],
     GxPosF32 |-> [size |-> 12, swap |-> <<<<0, 4>>, <<4, 4>>, <<8, 4>>>>],
     GxMeshSkin |-> [size |-> 24,
                     swap |-> <<<<0, 2>>, <<2, 2>>, <<4, 2>>, <<6, 2>>, <<8, 4>>, <<12, 4>>,
                                <<16, 4>>, <<20, 4>>>>],
     GxTranslationDescription |-> [size |-> 8, swap |-> <<<<2, 2>>>>]]

\* where the file keeps the vertex buffer, the mesh skin and their arrays
GxLay ==
    LET Pos == 28
        Diffuse == Pos + 12 * MaxGx
        St == Diffuse + 4 * MaxGx
        Nbt == St + 4 * MaxGx
        Skin == Nbt + 10 * MaxGx
        Trans == Skin + 24
        Verts == Trans + 8 * MaxGx
        Weights == Verts + 12 * MaxGx
    IN  [Vb |-> 0, Pos |-> Pos, Diffuse |-> Diffuse, St |-> St, Nbt |-> Nbt, Skin |-> Skin,
         Trans |-> Trans, Verts |-> Verts, Weights |-> Weights, Len |-> Weights + 4 * MaxGx]

\* the vertex buffers and skins the model fixes: n positions of the type pos,
\* diffuse colours, trans translations, verts skinned vertices
GxTemplates ==
    [n : 0 .. MaxGx, diffuse : {0, MaxGx},
     pos : {"U8", "GxPosS8", "GxPosS16", "GxSkinPosNorm", "GxPosF32"},
     trans : 0 .. MaxGx, verts : {0, MaxGx},
     nulls : {{}, {"position_buffer", "skin_weights"}, {"st", "skinned_verts"}}]

\* the fields of the file of template t
GxFields(t) ==
    LET ptr(name, a) == IF name \in t.nulls THEN 0 ELSE a
        tag == IF t.pos = "GxPosS8" THEN GxCompType.S8
               ELSE IF t.pos = "GxPosF32" THEN GxCompType.F32
               ELSE IF t.pos = "U8" THEN GxCompType.U8
               ELSE GxCompType.S16
        e == IF t.pos = "U8" THEN GxType.GxPosS8 ELSE GxType[t.pos]
    IN  {F(0, 2, IF t.pos = "GxSkinPosNorm" THEN 1 ELSE 0), F(2, 2, t.n), F(4, 1, tag),
         F(8, 2, t.diffuse), F(12, 4, ptr("position_buffer", GxLay.Pos)),
         F(16, 4, IF t.diffuse = 0 THEN 0 ELSE GxLay.Diffuse),
         F(20, 4, ptr("st", GxLay.St)), F(24, 4, GxLay.Nbt),
         F(GxLay.Skin, 2, t.trans), F(GxLay.Skin + 2, 2, 258),
         F(GxLay.Skin + 8, 4, GxLay.Trans), F(GxLay.Skin + 12, 4, t.verts),
         F(GxLay.Skin + 16, 4, ptr("skinned_verts", GxLay.Verts)),
         F(GxLay.Skin + 20, 4, ptr("skin_weights", GxLay.Weights))}
        \cup {F(GxLay.Pos + e.size * k + e.swap[c][1], e.swap[c][2],
                (IF e.swap[c][2] = 4 THEN 16909060 ELSE 258) + 6 * k + c)
                : k \in 0 .. t.n - 1, c \in DOMAIN e.swap}
        \cup {F(GxLay.Pos + k, 1, 7) : k \in {j \in 0 .. 3 * t.n - 1 : e.swap = <<>>}}
        \cup UNION {{F(GxLay.St + 4 * k, 2, 258 + 2 * k), F(GxLay.St + 4 * k + 2, 2, 259 + 2 * k),
                     F(GxLay.Nbt + 10 * k, 1, 9)} : k \in 0 .. t.n - 1}
        \cup {F(GxLay.Diffuse + 4 * k, 1, 5) : k \in 0 .. t.diffuse - 1}
        \cup UNION {{F(GxLay.Trans + 8 * k, 1, 1), F(GxLay.Trans + 8 * k + 2, 2, 258 + k)}
                      : k \in 0 .. t.trans - 1}
        \cup {F(GxLay.Verts + 12 * k + 2 * c, 2, 258 + 6 * k + c)
                : k \in 0 .. t.verts - 1, c \in 0 .. 5}
        \cup {F(GxLay.Weights + 4 * k, 1, 3) : k \in 0 .. t.verts - 1}

\* the bytes of the file, every field in the byte order o
GxBlob(o, t) ==
    WriteFields([x \in 0 .. GxLay.Len - 1 |-> 0], GxFields(t), o, 0, GxLay.Len - 1)

\* size bytes at the relocated pointer w lie inside the allocation
GxIn(w, size) == w[1] = 0 /\ w[2] >= Base /\ (w[2] - Base) + size <= GxLay.Len

\* the multi-byte fields of an array of n elements of type e
ArrayFields(e, n) ==
    [j \in 1 .. n * Len(e.swap) |->
        <<((j - 1) \div Len(e.swap)) * e.size + e.swap[((j - 1) % Len(e.swap)) + 1][1],
          e.swap[((j - 1) % Len(e.swap)) + 1][2]>>]

\* Fixable::fix of st.rs on one element of type e at a: swap unless the host
\* is little-endian (the element types here have no fix_offset of their own)
Fix(m, e, a, h) == IF h # "little" THEN swap_bytes_mut(m, e.swap, a) ELSE m

\* GxVertexBuffer::fix_position_data on the buffer at 0 of memory m: the
\* outcome and the memory
fix_position_data(m, h) ==
    LET count == RdN(m, 2, 2, h)
        tag == m[4]
        skinned == RdN(m, 0, 2, h) % 2 = 1
        pb == RdW(m, 12, h)
        e == IF tag = GxCompType.S8 THEN GxType.GxPosS8
             ELSE IF tag = GxCompType.F32 THEN GxType.GxPosF32
             ELSE IF skinned THEN GxType.GxSkinPosNorm ELSE GxType.GxPosS16
    IN  IF count = 0 THEN [res |-> "ok", mem |-> m]
        ELSE IF tag \notin TagValues(GxCompType) THEN [res |-> "ub", mem |-> m]
        ELSE IF tag \in {GxCompType.U8, GxCompType.U16} THEN [res |-> "panic", mem |-> m]
        ELSE IF pb = NULL THEN [res |-> "ok", mem |-> m]
        ELSE IF ~GxIn(pb, count * e.size) THEN [res |-> "ub", mem |-> m]
        ELSE [res |-> "ok", mem |-> swap_bytes_mut(m, ArrayFields(e, count), Off(pb))]

\* GxVertexBuffer::fix_offset on the buffer at 0
GxVertexBuffer_fix_offset(m, h) ==
    LET m1 == WrW(m, 12, h, fix_offset(RdW(m, 12, h)))
        p == fix_position_data(m1, h)
        m2 == WrW(p.mem, 16, h, fix_offset(RdW(p.mem, 16, h)))
        st == fix_offset(RdW(m2, 20, h))
        m3 == WrW(m2, 20, h, st)
        m4 == IF st # NULL /\ GxIn(st, GxType.GxSt.size) THEN Fix(m3, GxType.GxSt, Off(st), h) ELSE m3
        m5 == WrW(m4, 24, h, fix_offset(RdW(m4, 24, h)))
    IN  IF p.res # "ok" THEN p
        ELSE IF st # NULL /\ ~GxIn(st, GxType.GxSt.size) THEN [res |-> "ub", mem |-> m3]
        ELSE [res |-> "ok", mem |-> m5]

\* GxMeshSkin::fix_offset on the skin at GxLay.Skin
GxMeshSkin_fix_offset(m, h) ==
    LET s == GxLay.Skin
        tc == RdN(m, s, 2, h)
        tp == fix_offset(RdW(m, s + 8, h))
        m1 == WrW(m, s + 8, h, tp)
        te == GxType.GxTranslationDescription
        tok == tp = NULL \/ GxIn(tp, tc * te.size)
        m2 == IF tp # NULL /\ tok /\ h # "little"
              THEN swap_bytes_mut(m1, ArrayFields(te, tc), Off(tp)) ELSE m1
        vc == RdCount(m2, s + 12, 4, h)
        vp == fix_offset(RdW(m2, s + 16, h))
        m3 == WrW(m2, s + 16, h, vp)
        ve == GxType.GxSkinPosNorm
        vok == vp = NULL \/ GxIn(vp, vc * ve.size)
        m4 == IF vp # NULL /\ vok /\ h # "little"
              THEN swap_bytes_mut(m3, ArrayFields(ve, vc), Off(vp)) ELSE m3
        m5 == WrW(m4, s + 20, h, fix_offset(RdW(m4, s + 20, h)))
    IN  IF ~tok THEN [res |-> "ub", mem |-> m1]
        ELSE IF ~vok THEN [res |-> "ub", mem |-> m3]
        ELSE [res |-> "ok", mem |-> m5]

\* the effect of one fix call that ended with r on the structure named ty
GxFixed(ty, r) ==
    /\ mem' = r.mem
    /\ visited' = visited \cup {ty}
    /\ status' = IF r.res # "ok" THEN r.res
                 ELSE IF visited' = {"GxVertexBuffer", "GxMeshSkin"} THEN "loaded" ELSE "loading"
    /\ UNCHANGED <<reader, pointer, vb, out, impl, host, order, tpl, stack, swapCnt, relocCnt, fixes, ret>>

\* GxMesh::fix_offset, try_fix_array(vertex_buffers): fix of the vertex buffer
GxVertexBuffer_fix ==
    /\ status \in {"file", "loading"}
    /\ "GxVertexBuffer" \notin visited
    /\ GxFixed("GxVertexBuffer",
               GxVertexBuffer_fix_offset(Fix(mem, GxType.GxVertexBuffer, GxLay.Vb, host), host))

\* GxMesh::fix_offset, try_fix(mesh_skin): fix of the mesh skin
GxMeshSkin_fix ==
    /\ status \in {"file", "loading"}
    /\ "GxMeshSkin" \notin visited
    /\ GxFixed("GxMeshSkin",
               GxMeshSkin_fix_offset(Fix(mem, GxType.GxMeshSkin, GxLay.Skin, host), host))

\* GxMeshSkin::skin_weights
GxMeshSkin_skin_weights(m, h) ==
    array_ptr(RdW(m, GxLay.Skin + 20, h), RdN(m, GxLay.Skin, 2, h))

\* GxMeshSkin::skinned_verts
GxMeshSkin_skinned_verts(m, h) ==
    array_ptr(RdW(m, GxLay.Skin + 16, h), RdCount(m, GxLay.Skin + 12, 4, h))

\* a caller asks the fixed skin for its skinned vertices
skinned_verts ==
    /\ status = "loaded"
    /\ ret' = [GxMeshSkin_skinned_verts(mem, host) EXCEPT !.op = "skinned_verts"]
    /\ UNCHANGED <<reader, pointer, vb, out, impl, host, order, tpl, mem, stack, status, swapCnt, relocCnt, fixes,
                   visited>>

\* a caller asks the fixed skin for its weights
skin_weights ==
    /\ status = "loaded"
    /\ ret' = [GxMeshSkin_skin_weights(mem, host) EXCEPT !.op = "skin_weights"]
    /\ UNCHANGED <<reader, pointer, vb, out, impl, host, order, tpl, mem, stack, status, swapCnt, relocCnt, fixes,
                   visited>>

GxInit ==
    /\ impl = "st"
    /\ host \in {"little", "big"}
    /\ order \in {"little", "big"}
    /\ tpl \in GxTemplates
    /\ mem = GxBlob(order, tpl)
    /\ stack = <<>>
    /\ status = "file"
    /\ swapCnt = <<>>
    /\ relocCnt = <<>>
    /\ visited = {}
    /\ fixes = 0
    /\ ret = NoRet
    /\ vb = NoVb
    /\ out = NoOut
    /\ reader = [pos |-> 0, start |-> 0]
    /\ pointer = [value |-> NULL, stored |-> NULL, base |-> <<0, 0, Base>>, res |-> "stored"]

GxNext ==
    \/ GxVertexBuffer_fix
    \/ GxMeshSkin_fix
    \/ skinned_verts
    \/ skin_weights

GxSpec == GxInit /\ [][GxNext]_vars

(* ------- src/formats: the binrw file pointer and the 32-bit Ptr -------- *)
\* longest stream handed to the reader
MaxStream == 8

\* NullableFilePtr::read_options with the pointee's read returned by `?`
\* before the position is restored
NullableFilePtr_read_options_propagating(m, size, pos, endian, need) ==
    IF pos + 4 > size
    THEN {[res |-> "err", kind |-> "ptr", ptr |-> NULL, vals |-> <<>>, pos |-> q] : q \in {pos, size}}
    ELSE LET ptr == RdW(m, pos, endian)
             before == pos + 4
         IN  IF ptr = NULL
             THEN {[res |-> "ok", kind |-> "None", ptr |-> ptr, vals |-> <<>>, pos |-> before]}
             ELSE IF ptr[1] = 0 /\ ptr[2] + need <= size
             THEN {[res |-> "ok", kind |-> "Some", ptr |-> ptr,
                    vals |-> [i \in 1 .. need |-> m[ptr[2] + i - 1]], pos |-> before]}
             ELSE {[res |-> "err", kind |-> "pointee", ptr |-> ptr, vals |-> <<>>,
                    pos |-> 65536 * ptr[1] + ptr[2]]}

\* NullableFilePtr::read_options on the stream m of size bytes at position
\* pos, for a pointee of need bytes: result, pointer, value, position after.
\* A failed read of the pointer itself leaves the position where the reader
\* of u32 leaves it (restored, or at the end of the stream)
NullableFilePtr_read_options(m, size, pos, endian, need) ==
    IF pos + 4 > size
    THEN {[res |-> "err", kind |-> "ptr", ptr |-> NULL, vals |-> <<>>, pos |-> q] : q \in {pos, size}}
    ELSE LET ptr == RdW(m, pos, endian)
             before == pos + 4
         IN  IF ptr = NULL
             THEN {[res |-> "ok", kind |-> "None", ptr |-> ptr, vals |-> <<>>, pos |-> before]}
             ELSE IF ptr[1] = 0 /\ ptr[2] + need <= size
             THEN {[res |-> "ok", kind |-> "Some", ptr |-> ptr,
                    vals |-> [i \in 1 .. need |-> m[ptr[2] + i - 1]], pos |-> before]}
             ELSE {[res |-> "err", kind |-> "pointee", ptr |-> ptr, vals |-> <<>>,
                    pos |-> before]}

\* a field of type NullableFilePtr<T> is read from the stream
read_options ==
    /\ status = "decode"
    /\ out.op = "none"
    /\ \E r \in NullableFilePtr_read_options(mem, tpl.len, reader.pos, order, tpl.need) :
        /\ out' = [op |-> "read_options", index |-> 0, res |-> r.res, kind |-> r.kind,
                   vals |-> r.vals]
        /\ ret' = [NoRet EXCEPT !.op = "read_options", !.p = r.ptr, !.some = r.kind = "Some"]
        /\ reader' = [reader EXCEPT !.pos = r.pos]
    /\ UNCHANGED <<pointer, vb, impl, host, order, tpl, mem, stack, status, swapCnt, relocCnt,
                   fixes, visited>>

\* Ptr::offset: self.value += ptr as u32 for a non-zero value. base is the
\* address <<bits 32 and up, bits 16..31, bits 0..15>>; an addition that
\* overflows panics with overflow checks and wraps without them
Ptr_offset(value, base) ==
    IF value = NULL THEN {[res |-> "offset", value |-> value]}
    ELSE LET lo == value[2] + base[3]
             hi == value[1] + base[2] + (lo \div 65536)
         IN  IF hi >= 65536
             THEN {[res |-> "panic", value |-> value],
                   [res |-> "offset", value |-> <<hi % 65536, lo % 65536>>]}
             ELSE {[res |-> "offset", value |-> <<hi, lo % 65536>>]}

\* a Ptr of the loaded structure is offset by the address of the buffer
offset ==
    /\ status = "decode"
    /\ pointer.res = "stored"
    /\ \E r \in Ptr_offset(pointer.value, pointer.base) :
        pointer' = [pointer EXCEPT !.value = r.value, !.res = r.res]
    /\ UNCHANGED <<reader, vb, out, impl, host, order, tpl, mem, stack, status, swapCnt, relocCnt,
                   fixes, visited, ret>>

\* a stream of len bytes whose pointer field at position at holds p, read for
\* a pointee of need bytes; a Ptr holding a stored offset, and a buffer address
FormatsInit ==
    /\ impl = "ptr"
    /\ host \in {"little", "big"}
    /\ order \in {"little", "big"}
    /\ tpl \in {t \in [len : 2 .. MaxStream, at : {0, 2}, need : 1 .. 2,
                       p : {NULL, <<0, 2>>, <<0, 6>>, <<0, MaxStream - 1>>, <<0, MaxStream + 4>>,
                            <<256, 0>>}] : t.at <= t.len}
    /\ mem = [x \in 0 .. tpl.len - 1 |->
                IF x >= tpl.at /\ x < tpl.at + 4
                THEN Sig(tpl.p)[IF order = "big" THEN x - tpl.at + 1 ELSE 4 - (x - tpl.at)]
                ELSE x + 1]
    /\ reader = [pos |-> tpl.at, start |-> tpl.at]
    /\ pointer \in {[value |-> v, stored |-> v, base |-> b, res |-> "stored"] :
                      v \in {NULL, <<0, 16>>, <<0, 32>>},
                      b \in {<<0, 0, Base>>, <<1, 0, Base>>, <<1, 65535, 65520>>}}
    /\ status = "decode"
    /\ stack = <<>>
    /\ swapCnt = <<>>
    /\ relocCnt = <<>>
    /\ visited = {}
    /\ fixes = 0
    /\ ret = NoRet
    /\ vb = NoVb
    /\ out = NoOut

FormatsNext ==
    \/ read_options
    \/ offset

FormatsSpec == FormatsInit /\ [][FormatsNext]_vars

(* ------------------------------ claims -------------------------------- *)
\* the field the next step of the loader relocates, -1 if it relocates none
RelocTarget ==
    IF ~HasOp THEN -1
    ELSE IF Op.k \in {"reloc", "fix"} THEN Top.addr + Op.off
    ELSE IF Op.k \in {"arr", "parr", "ixb"} /\ Top.i = -1 THEN Top.addr + Op.off
    ELSE IF Op.k \in {"parr", "ixb"} /\ Top.i >= 0 /\ Top.i < Top.n
            /\ InBlobW(AddN(Top.p, 4 * Top.i), 4)
    THEN Off(AddN(Top.p, 4 * Top.i))
    ELSE -1

\* the loader converts exactly when the file's byte order is not the host's
Converted == Swaps(impl, host) <=> (host # order)

\* the bytes of the multi-byte fields of the structure ty at addr
MultiByte(ty, addr) ==
    LET fs == TypeInfo(ty).swap
    IN  UNION {{addr + fs[k][1] + d : d \in 0 .. fs[k][2] - 1} :
                 k \in {j \in DOMAIN fs : fs[j][2] > 1}}

\* the elements of the arrays the header points at and fix_offset only relocates
ReachableElems ==
    UNION {LET a == Accessors[name]
               w == RdW(mem, a.p, host)
               n == RdN(mem, a.c, 1, host)
           IN  IF w # NULL /\ InBlobW(w, n * SizeOf(a.ty))
               THEN {<<a.ty, Off(w) + e * SizeOf(a.ty)>> : e \in 0 .. n - 1}
               ELSE {} : name \in {"segments", "bones", "lights"}}

\* C1: a step that relocates an offset field holding 0 leaves the field Null:
\* the base is not added to it, whatever the sibling count holds
C1_NullStaysNull ==
    [][(RelocTarget >= 0 /\ RdW(mem, RelocTarget, host) = NULL)
          => RdW(mem', RelocTarget, host) = NULL]_vars

\* C1 witness: a loaded document with counts of 3 whose platform offset was 0
\* and is Null, beside a segment offset that received the base
C1_Witness ==
    /\ status = "loaded" /\ tpl.n = 3 /\ tpl.nulls = {"mesh_is"} /\ Converted
    /\ RdW(mem, HdrPtr.mesh_is, host) = NULL
    /\ RdW(mem, HdrPtr.segment_array, host) = <<0, Base + Lay.Seg>>

\* C2 (as the specification states it): an accessor called on a Null pointer
\* yields no elements, whatever the count
C2_NullYieldsNoElements ==
    (ret.op \in DOMAIN Accessors \cup {"vertex_buffers"} /\ ret.p = NULL /\ status = "loaded")
        => ret.len = 0

\* C3 (as the specification states it): after load every non-null array
\* reference of the header designates count elements inside the blob
C3_RangesInBlob ==
    (status = "loaded" /\ fixes = 1 /\ Converted)
        => \A name \in DOMAIN Accessors :
              LET a == Accessors[name]
                  w == RdW(mem, a.p, host)
              IN  w # NULL => InBlobW(w, RdN(mem, a.c, 1, host) * SizeOf(a.ty))

\* C4 (as the specification states it): no offset field receives the base a
\* second time, however often fix runs
C4_NoSecondRelocation == \A a \in DOMAIN relocCnt : relocCnt[a] <= 1

\* C5 (as the specification states it): where the file's byte order is not
\* the host's, the four bytes of an offset are swapped before the step that
\* relocates the offset
C5_SwapBeforeRelocate ==
    [][(Converted /\ host # order /\ RelocTarget >= 0
          /\ relocCnt'[RelocTarget] > relocCnt[RelocTarget])
          => \A d \in 0 .. 3 : swapCnt[RelocTarget + d] >= 1]_vars

\* C6 (as the specification states it): after load every multi-byte field of
\* every structure reachable from the header was converted exactly once
C6_ConvertedExactlyOnce ==
    (status = "loaded" /\ fixes = 1 /\ Converted /\ host # order)
        => \A v \in visited \cup ReachableElems :
              \A b \in MultiByte(v[1], v[2]) : swapCnt[b] = 1

\* C7 (as the specification states it): for a big-endian file every
\* multi-byte field of a structure the loader has entered is in host order:
\* reversed on a little-endian host, as stored on a big-endian host
C7_VisitedInHostOrder ==
    order = "big"
        => \A v \in visited :
              \/ status = "loading" /\ stack # <<>> /\ Top = NewFrame(v[1], v[2], 0)
              \/ \A b \in MultiByte(v[1], v[2]) : (swapCnt[b] % 2 = 1) <=> (host = "little")

\* C8: an accessor of st.rs / raw.rs / formats/mesh/raw.rs called on a
\* non-null pointer returns exactly count elements; the count fields are one
\* byte wide, so the count is the one of the file on every host; bones() of a
\* converted document starts at the relocated bone array
C8_ExactlyCount ==
    (ret.op \in DOMAIN Accessors /\ ret.p # NULL)
        => /\ ret.some /\ ret.len = tpl.n
           /\ (ret.op = "bones" /\ Converted /\ fixes = 1) => ret.p = <<0, Base + Lay.Bone>>

\* C8 witness: bone_count = 3 with a valid bone array, bones() of length 3
C8_Witness ==
    /\ ret.op = "bones" /\ tpl.n = 3 /\ mem[2] = 3
    /\ ret.some /\ ret.len = 3 /\ ret.p = <<0, Base + Lay.Bone>>

\* C9 (as the specification states it): skeleton_index(i) returns no byte
\* for an index at or beyond the length of the skeleton-index array
C9_BoundsChecked ==
    (ret.op = "skeleton_index" /\ ret.len >= SkelLen /\ Converted /\ fixes = 1) => ~ret.some

\* C10 (as the specification states it): a loaded document has a platform
\* payload; a file whose platform offset is 0 does not load
C10_LoadedHasPlatform ==
    status = "loaded" => RdW(mem, HdrPtr.mesh_is, host) # NULL

\* C11 (as the specification states it): load has no partial-success outcome;
\* a file whose segment array runs past the end of the buffer (a truncated
\* buffer, a malformed offset) is a fatal condition, so load hands out a
\* document only for files without one
C11_NoPartialDocument ==
    (status = "loaded" /\ fixes = 1) => ~tpl.trunc

\* 2^n
RECURSIVE Pow2(_)
Pow2(n) == IF n = 0 THEN 1 ELSE 2 * Pow2(n - 1)

\* the f32 f is the integer raw times 2^-bits
IsScaled(f, raw, bits) == f[1] * Pow2(bits) = raw * Pow2(f[2])

\* get_position returned a position of an integer (non-float) buffer
IntegerPosition ==
    /\ out.op = "get_position"
    /\ out.res = "some"
    /\ vb.tag \in {GxCompType.S8, GxCompType.S16}

C13_BulkEqualsSingle ==
    (out.op = "normalized" /\ out.res = "vec")
        => \A i \in 1 .. Len(out.vals) :
              \A r \in GxVertexBuffer_get_position(vb, i - 1) :
                  r.res = "some" /\ r.vals[1] = out.vals[i]

\* a decode operation of GxVertexBuffer has returned
GxDecoded == vb.plat = "gc" /\ out.op \in {"gx_positions", "normalized", "get_position"}

\* C14 (as the specification states it): a position-type byte that is none of
\* U8, S8, U16, S16, F32 makes decoding return the error UnsupportedTag
C14_UnknownTagIsError ==
    (GxDecoded /\ vb.tag \notin TagValues(GxCompType)) => out.res = "UnsupportedTag"

\* C15 (as the specification states it): a fractional-bits value outside
\* 0 .. 15 makes normalized and get_position return the error UnsupportedTag
C15_FractionBitsChecked ==
    (/\ vb.plat = "gc"
     /\ out.op \in {"normalized", "get_position"}
     /\ vb.tag \in {GxCompType.S8, GxCompType.S16, GxCompType.F32}
     /\ ~vb.null
     /\ vb.frac \notin 0 .. 15)
        => out.res = "UnsupportedTag"

\* a decode operation of DxVertexBufferDescriptor has returned
DxDecoded == vb.plat = "dx" /\ out.op \in {"buffer_values", "positions"}

\* C16 (as the specification states it): on a Shader buffer every decode
\* operation returns "unavailable" (None)
C16_ShaderUnavailable ==
    (DxDecoded /\ vb.tag = DxVertexBufferType.Shader) => out.res = "none"

\* C17 (as the specification states it): records are produced only when
\* bytes_per_vertex equals the record size of the layout of the tag
C17_StrideChecked ==
    (DxDecoded /\ out.res \in {"some", "vec"} /\ out.vals # <<>>)
        => vb.stride = DxLayouts[TagName(DxVertexBufferType, vb.tag)].size

\* the three floats a record starts with
FirstFloats(rec) == IF "position" \in DOMAIN rec THEN rec.position ELSE rec.color

\* C18 (as the specification states it): for each of the 7 fixed layouts,
\* positions() of a buffer with a valid vertex stream yields vertex_count
\* positions, the i-th being the three floats stored in record i
C18_PositionsOfEveryLayout ==
    (/\ vb.plat = "dx"
     /\ out.op = "positions"
     /\ vb.tag \in TagValues(DxVertexBufferType) \ {DxVertexBufferType.Shader}
     /\ ~vb.null
     /\ ~vb.wild)
        => /\ out.res = "vec"
           /\ Len(out.vals) = Len(vb.data)
           /\ \A k \in 1 .. Len(vb.data) : out.vals[k] = FirstFloats(vb.data[k])

\* st.rs SafeBuffer<T>, the document load returns: the pointer to the buffer
\* and nothing else
SafeBuffer == [ptr |-> <<0, Base>>]

\* index_buffers() of a loaded document returned an index that exceeds the
\* vertex count of the first vertex buffer of the mesh
IndexAboveVertexCount ==
    /\ status = "loaded"
    /\ fixes = 1
    /\ out.op = "index_buffers"
    /\ out.res = "vec"
    /\ InBlobW(ret.p, DxMesh_t.size)
    /\ LET v == RdW(mem, Off(ret.p) + 4, host)
       IN  /\ InBlobW(v, DxVertexBufferDescriptor_t.size)
           /\ \E b \in 1 .. Len(out.vals) :
                \E k \in 1 .. Len(out.vals[b]) :
                    out.vals[b][k] > RdCount(mem, Off(v) + 8, 4, host)

\* C19 (as the specification states it): load succeeds on a file with an index
\* above the vertex count, and the document carries a warning for it
C19_AnomalyRecorded ==
    IndexAboveVertexCount
        => "warnings" \in DOMAIN SafeBuffer /\ SafeBuffer.warnings # <<>>

\* C20: once load has returned, no step of an accessor or of a decode
\* operation (segments .. collision_tree, impl_specific, vertex_buffers,
\* skeleton_index, index_buffers, buffer_values, positions) changes a byte of
\* the buffer
C20_ReadOnlyAfterLoad == [][status = "loaded" => mem' = mem]_vars

\* positions() has decoded a vertex buffer of a loaded document whose bytes
\* load had converted
C20_Witness ==
    /\ status = "loaded"
    /\ out.op = "positions"
    /\ out.res = "vec"
    /\ out.vals # <<>>
    /\ \E a \in DOMAIN relocCnt : relocCnt[a] > 0

\* C21 (as the specification states it): dropping the owner releases the blob,
\* once: the allocator gets back the pointer of the buffer with the layout the
\* buffer was allocated with (BlobLen bytes)
C21_DropReleasesBlob ==
    status = "dropped"
        => ret.op = "dealloc" /\ ret.p = <<0, Base>> /\ ret.len = BlobLen

\* C22 (as the specification states it): during one load no offset field has
\* the base added twice, also when two fields hold the same target or the
\* pointers form a cycle
C22_OncePerLoad ==
    fixes <= 1 => \A a \in DOMAIN relocCnt : relocCnt[a] <= 1

\* the file is in the byte order of the host and the loader leaves its bytes
\* as they are
NativeFile == host = order /\ ~Swaps(impl, host)

\* C23 (as the specification states it): load terminates for every input
\* blob, here every file in the byte order of the host, those with linked
\* vertex buffer descriptors included: a load that has started returns the
\* document
C23_LoadReturns ==
    (status = "loading" /\ fixes = 1 /\ NativeFile) ~> (status = "loaded")

\* the index-buffer loop of DxMesh::fix_offset is about to read
\* index_count(i) through the indicies_counts field of the mesh
ReadsIndexCount == HasOp /\ Op.k = "ixb" /\ Top.i >= 0 /\ Top.i < Top.n

C25_PositionDispatch ==
    /\ (/\ vb.plat = "gc"
        /\ out.op = "gx_positions"
        /\ ~vb.null
        /\ vb.tag \in {GxCompType.U8, GxCompType.S8, GxCompType.S16, GxCompType.F32})
          => /\ out.res = "some"
             /\ out.vals = vb.data
             /\ out.kind = IF vb.tag \in {GxCompType.U8, GxCompType.S8} THEN "S8"
                           ELSE IF vb.tag = GxCompType.F32 THEN "F32"
                           ELSE IF vb.skinned THEN "SkinnedS16" ELSE "S16"
    /\ (/\ vb.plat = "gc"
        /\ out.op = "get_position"
        /\ out.res = "some"
        /\ vb.tag = GxCompType.F32)
          => out.vals[1] = vb.data[out.index + 1]

\* index_buffer_count of the DxMesh behind the reference in ret
IndexBufferCount == RdN(mem, Off(ret.p) + 3, 1, host)

\* C26 (as the specification states it): index_buffers() yields
\* index_buffer_count buffers, buffer i with counts[i] entries, and
\* index_buffer(i) reads neither array at an index at or beyond
\* index_buffer_count: for such an index there is no buffer
C26_IndexBuffersFromCounts ==
    (/\ status \in {"loaded", "ub"} /\ fixes = 1 /\ Converted
     /\ ret.op = "impl_specific" /\ InBlobW(ret.p, DxMesh_t.size))
        => /\ (out.op = "index_buffers" /\ out.res = "vec")
                => /\ Len(out.vals) = IndexBufferCount
                   /\ \A i \in 1 .. Len(out.vals) :
                        Len(out.vals[i])
                            = RdN(mem, Off(AddN(RdW(mem, Off(ret.p) + 12, host), 2 * (i - 1))),
                                  2, host)
           /\ (out.op = "index_buffer" /\ out.index >= IndexBufferCount)
                => out.res = "none"


\* the relocated value of the pointer field `name` of the vertex buffer, stored at a
GxRelocated(name, off, a) ==
    RdW(mem, off, host) = IF name \in tpl.nulls THEN NULL ELSE AddBase(<<0, a>>)

\* element k of the position array reads, natively, as the file wrote it
GxPositionConverted(k) ==
    LET e == GxType[tpl.pos]
    IN  \A c \in DOMAIN e.swap :
            LET a == GxLay.Pos + e.size * k + e.swap[c][1]
            IN  IF e.swap[c][2] = 4 THEN RdW(mem, a, host) = AddN(<<258, 772>>, 6 * k + c)
                ELSE RdN(mem, a, 2, host) = 258 + 6 * k + c

\* element k of the ST array reads, natively, as the file wrote it
GxStConverted(k) ==
    /\ RdN(mem, GxLay.St + 4 * k, 2, host) = 258 + 2 * k
    /\ RdN(mem, GxLay.St + 4 * k + 2, 2, host) = 259 + 2 * k

\* C27 (as the specification states it): once the vertex buffer is fixed its
\* four array pointers are relocated and every one of the position_count
\* elements of the position and ST arrays is in host byte order
C27_ArraysConverted ==
    ("GxVertexBuffer" \in visited /\ status \in {"loading", "loaded"} /\ Converted)
        => /\ GxRelocated("position_buffer", 12, GxLay.Pos)
           /\ GxRelocated("st", 20, GxLay.St)
           /\ RdW(mem, 24, host) = AddBase(<<0, GxLay.Nbt>>)
           /\ RdW(mem, 16, host) = IF tpl.diffuse = 0 THEN NULL ELSE AddBase(<<0, GxLay.Diffuse>>)
           /\ "position_buffer" \notin tpl.nulls
                => \A k \in 0 .. tpl.n - 1 : GxPositionConverted(k)
           /\ "st" \notin tpl.nulls => \A k \in 0 .. tpl.n - 1 : GxStConverted(k)


\* C28 (as the specification states it): with both pointers non-null,
\* skin_weights() returns as many records as skinned_verts(), namely
\* skinned_verts_count
C28_WeightPerSkinnedVertex ==
    (/\ status = "loaded"
     /\ ret.op = "skin_weights"
     /\ ret.some
     /\ GxMeshSkin_skinned_verts(mem, host).some)
        => /\ ret.len = GxMeshSkin_skinned_verts(mem, host).len
           /\ ret.len = RdCount(mem, GxLay.Skin + 12, 4, host)


\* C29: whenever the pointer field itself was read, read_options leaves the
\* reader right after the 4-byte field: for a zero pointer (value None,
\* nothing read), for a pointee read at absolute position ptr, and for a
\* pointee whose read failed (error returned, position restored)
C29_PositionAfterPointer ==
    (out.op = "read_options" /\ out.kind \in {"None", "Some", "pointee"})
        => /\ reader.pos = reader.start + 4
           /\ ret.p = tpl.p
           /\ out.kind = "None" <=> tpl.p = NULL
           /\ out.kind = "None" => out.res = "ok" /\ out.vals = <<>>
           /\ out.kind = "Some"
                => /\ out.res = "ok"
                   /\ out.vals = [i \in 1 .. tpl.need |-> mem[tpl.p[2] + i - 1]]
           /\ out.kind = "pointee" => out.res = "err"

\* a pointee that could not be read, at a position other than the one restored
C29_Witness ==
    /\ out.op = "read_options"
    /\ out.kind = "pointee"
    /\ out.res = "err"
    /\ tpl.p # <<0, reader.start + 4>>
    /\ reader.pos = reader.start + 4

\* the 64-bit address base + w
Sum64(base, w) ==
    LET lo == base[3] + w[2]
        hi == base[2] + w[1] + (lo \div 65536)
    IN  <<base[1] + (hi \div 65536), hi % 65536, lo % 65536>>

\* C30 (as the specification states it): offsetting a non-null Ptr gives
\* exactly base + stored offset, with no wrap and no bits of the base lost
C30_ExactRelocation ==
    (pointer.res # "stored" /\ pointer.stored # NULL)
        => /\ pointer.res = "offset"
           /\ <<0, pointer.value[1], pointer.value[2]>> = Sum64(pointer.base, pointer.stored)

====
